---- MODULE Spec2Model ----
(***************************************************************************)
(* A model of the frequenz-cs-reporting dashboard: the sidebar filter      *)
(* collector (components/sidebar_inputs.py, components/inputs.py), the     *)
(* microgrid config/client factory (services/client_factory.py,            *)
(* utils/env.py), range validation (utils/time.py) and the cached data     *)
(* fetch wrapper (services/data_service.py).                               *)
(***************************************************************************)
EXTENDS Integers, Sequences, FiniteSets, TLC

VARIABLES
    session_state,      \* st.session_state: key string -> value
    today,              \* date.today(), as a day number
    rendered,           \* what the last collect_sidebar_inputs call did
    config_dir,         \* the configuration directory on disk
    microgrid_configs,  \* st.cache_resource entry of _load_microgrid_configs
    environ,            \* os.environ: variable name -> value
    now,                \* the clock, in seconds
    data_cache,         \* st.cache_data entries of get_microgrid_data
    call,               \* the fetch in flight, if any
    last,               \* what the last fetch call did
    upstream_requests,  \* ac_active_power requests issued so far
    time_call,          \* the arguments and results of the utils/time.py calls
    clients,            \* the MicrogridData clients constructed so far
    factory_call,       \* what the last client_factory call did
    ids_cache,          \* st.cache_data entry of get_microgrid_ids
    page,               \* the reporting page's render pass
    plot_call,          \* the arguments and result of a plot_percentage_bar call
    app_pages,          \* the page modules installed for the application
    pages,              \* what discover_library_pages returned
    query_params,       \* st.query_params: the URL's query parameters
    selected            \* what the last sidebar(pages) call returned

sidebarVars == <<session_state, today, rendered>>
configVars == <<config_dir, microgrid_configs>>
fetchVars == <<environ, now, data_cache, call, last, upstream_requests>>
timeVars == <<time_call>>
factoryVars == <<clients, factory_call, ids_cache>>
pageVars == <<page>>
plotVars == <<plot_call>>
appVars == <<app_pages, pages, query_params, selected>>
vars == <<sidebarVars, configVars, fetchVars, timeVars, factoryVars, pageVars, plotVars, appVars>>

(***************************************************************************)
(* Bounds of the model.                                                    *)
(***************************************************************************)
MaxDay == 1
MaxTime == 750
MaxRequests == 3
MaxDate == 2
MaxClients == 2
MaxPasses == 2

Days == 0..MaxDay

(***************************************************************************)
(* str(int) and int(str) on the ids the model uses.                        *)
(***************************************************************************)
Digits == <<"0", "1", "2", "3", "4", "5", "6", "7", "8", "9">>

RECURSIVE Str(_)
Str(n) == IF n < 10 THEN Digits[n + 1] ELSE Str(n \div 10) \o Digits[(n % 10) + 1]

IdUniverse == 0..9

\* mid.replace("iot", "") on a key whose only "iot" is a leading one.
StripIot(mid) ==
    IF \E n \in IdUniverse : mid = "iot" \o Str(n)
    THEN Str(CHOOSE n \in IdUniverse : mid = "iot" \o Str(n))
    ELSE mid

\* int(s) for a canonical decimal string.
ParseInt(s) == CHOOSE n \in IdUniverse : Str(n) = s

RECURSIVE SortedSeq(_)
SortedSeq(S) ==
    IF S = {} THEN <<>>
    ELSE LET m == CHOOSE x \in S : \A y \in S : x <= y
         IN <<m>> \o SortedSeq(S \ {m})

(***************************************************************************)
(* services/client_factory.py: the config mapping and its process cache.   *)
(***************************************************************************)
NoConfigs == [k \in {} |-> <<>>]

\* The st.cache_resource entry: whether a mapping is stored, the mapping, and
\* how many times the function body has produced one.
NotLoaded == [loaded |-> FALSE, configs |-> NoConfigs, loads |-> 0]

\* The directory contents the model starts from: absent, or two microgrids.
DiskChoices ==
    { [exists |-> FALSE, configs |-> NoConfigs],
      [exists |-> TRUE,
       configs |-> ("1" :> <<"grid", "pv">>) @@ ("2" :> <<"grid", "chp", "wind">>)] }

\* _load_microgrid_configs under st.cache_resource: the cached mapping when one
\* is stored, else the directory's mapping, which is then stored; a missing
\* directory raises and stores nothing.
LoadRaises == ~microgrid_configs.loaded /\ ~config_dir.exists

LoadedConfigs ==
    IF microgrid_configs.loaded THEN microgrid_configs.configs ELSE config_dir.configs

\* Mutant: the directory is read again by every call.
CacheAfterLoad_Reload ==
    IF ~config_dir.exists
    THEN microgrid_configs
    ELSE [loaded |-> TRUE, configs |-> config_dir.configs, loads |-> microgrid_configs.loads + 1]

CacheAfterLoad ==
    IF microgrid_configs.loaded \/ ~config_dir.exists
    THEN microgrid_configs
    ELSE [loaded |-> TRUE, configs |-> config_dir.configs, loads |-> microgrid_configs.loads + 1]

\* get_microgrid_ids: the keys, "iot" stripped, as sorted ints.
get_microgrid_ids ==
    SortedSeq({ParseInt(StripIot(mid)) : mid \in DOMAIN LoadedConfigs})

(***************************************************************************)
(* components/sidebar_inputs.py: collect_sidebar_inputs.                   *)
(***************************************************************************)
form_key(key_prefix) ==
    IF key_prefix # "" THEN key_prefix \o "filters_form" ELSE "filters_form"

\* Mutant: the applied-filters key ignores the prefix.
state_key_Unprefixed(key_prefix) == "applied_filters"

state_key(key_prefix) ==
    IF key_prefix # "" THEN key_prefix \o "applied_filters" ELSE "applied_filters"

microgrid_key(key_prefix) == key_prefix \o "microgrid_id"
start_key(key_prefix) == key_prefix \o "start_date"
end_key(key_prefix) == key_prefix \o "end_date"
timezone_key(key_prefix) == key_prefix \o "timezone"
resolution_key(key_prefix) == key_prefix \o "resolution"

WidgetKeys(key_prefix) ==
    { microgrid_key(key_prefix), start_key(key_prefix), end_key(key_prefix),
      timezone_key(key_prefix), resolution_key(key_prefix) }

PersistedKeys(key_prefix) ==
    WidgetKeys(key_prefix) \cup {form_key(key_prefix), state_key(key_prefix)}

\* The option tuples the collector is called with.
timezone_options == <<"Europe/Berlin", "UTC">>
resolution_options == <<"15min", "1hour">>

\* Values a caller may pass as default_timezone / default_resolution; the last
\* of each is not among the options.
DefaultTimezones == {"Europe/Berlin", "UTC", "Asia/Tokyo"}
DefaultResolutions == {"15min", "1hour", "1day"}

SeqRange(s) == {s[i] : i \in 1..Len(s)}

Min(a, b) == IF a <= b THEN a ELSE b

\* next((idx for idx, option in enumerate(options) if option == default), 0)
DefaultIndex(options, default) ==
    IF \E i \in 1..Len(options) : options[i] = default
    THEN CHOOSE i \in 1..Len(options) :
            options[i] = default /\ \A j \in 1..(i - 1) : options[j] # default
    ELSE 1

\* A keyed widget: on its first render it takes its initial value, afterwards the
\* value the user left in it.
WidgetValue(key, initial, picked) ==
    IF key \in DOMAIN session_state THEN picked ELSE initial

\* An optional date argument: <<>> for a falsy one (None), <<d>> for the date d.
NoDate == <<>>

\* `x or y` on an optional date.
DateOr(x, y) == IF x = NoDate THEN y ELSE x[1]

\* timedelta(days=7) of the fallback start.
FallbackDays == 7

\* default_start or (today - timedelta(days=7))
fallback_start(default_start) == DateOr(default_start, today - FallbackDays)

\* Mutant: the end picker's initial value is not clamped to today.
end_initial_Unclamped(key_prefix, default_end) ==
    IF end_key(key_prefix) \in DOMAIN session_state
    THEN session_state[end_key(key_prefix)] ELSE DateOr(default_end, today)

\* min(st.session_state.get(end_key, default_end or today), today)
end_initial(key_prefix, default_end) ==
    Min(IF end_key(key_prefix) \in DOMAIN session_state
        THEN session_state[end_key(key_prefix)] ELSE DateOr(default_end, today),
        today)

\* st.session_state.get(start_key, fallback_start)
start_initial(key_prefix, default_start) ==
    IF start_key(key_prefix) \in DOMAIN session_state
    THEN session_state[start_key(key_prefix)] ELSE fallback_start(default_start)

\* The dict built from the five widgets of one render; `defaults` holds the
\* default_start, default_end, default_timezone and default_resolution arguments.
current_selection(key_prefix, defaults, picked) ==
    [ microgrid_id |-> WidgetValue(microgrid_key(key_prefix), get_microgrid_ids[1], picked.microgrid_id),
      start_date |-> WidgetValue(start_key(key_prefix), start_initial(key_prefix, defaults.default_start), picked.start_date),
      end_date |-> WidgetValue(end_key(key_prefix), end_initial(key_prefix, defaults.default_end), picked.end_date),
      timezone |-> WidgetValue(timezone_key(key_prefix), timezone_options[DefaultIndex(timezone_options, defaults.default_timezone)], picked.timezone),
      resolution |-> WidgetValue(resolution_key(key_prefix), resolution_options[DefaultIndex(resolution_options, defaults.default_resolution)], picked.resolution) ]

\* Mutant: the widgets' dict is stored on every render.
StoresSelection_EveryRender(key_prefix, submitted) == TRUE

\* Mutant: the dict is stored only when none is stored yet.
StoresSelection_OnlyFirst(key_prefix, submitted) ==
    state_key(key_prefix) \notin DOMAIN session_state

\* if submitted or state_key not in st.session_state
StoresSelection(key_prefix, submitted) ==
    submitted \/ state_key(key_prefix) \notin DOMAIN session_state

\* Mutant: the date pickers have no max_value.
PickableDays_NoMax == Days

\* The days a date picker offers: none after today (max_value=today).
PickableDays == 0..today

\* The arguments the reporting page passes (app_pages/reporting.py).
PageDefaults ==
    [ default_start |-> <<today>>, default_end |-> <<today>>,
      default_timezone |-> "Europe/Berlin", default_resolution |-> "15min" ]

\* The arguments a caller may pass: a start within the picker's range and an
\* end that is not before it.
DefaultArgs ==
    { defaults \in [ default_start : {NoDate} \cup {<<d>> : d \in PickableDays},
                     default_end : {NoDate} \cup {<<d>> : d \in Days},
                     default_timezone : DefaultTimezones,
                     default_resolution : DefaultResolutions ] :
        (defaults.default_start # NoDate /\ defaults.default_end # NoDate)
            => defaults.default_start[1] <= defaults.default_end[1] }

\* What the user may have left in the form: any listed id and option, and dates
\* the pickers offer.
Picks ==
    [ microgrid_id : SeqRange(get_microgrid_ids),
      start_date : PickableDays,
      end_date : PickableDays,
      timezone : SeqRange(timezone_options),
      resolution : SeqRange(resolution_options) ]

\* The same, with only the microgrid and the start date edited.
StartPicks ==
    { picked \in Picks : /\ picked.timezone = timezone_options[1]
                         /\ picked.resolution = resolution_options[1]
                         /\ picked.end_date = today }

NoSelection == [k \in {} |-> <<>>]

NoDefaults ==
    [ default_start |-> NoDate, default_end |-> NoDate, default_timezone |-> "", default_resolution |-> "" ]

\* Nothing rendered yet.  A render records its arguments, the day it ran on,
\* whether a Selection was stored before it, the widgets' dict and the result.
NoRender ==
    [ op |-> "none", key_prefix |-> "", defaults |-> NoDefaults, today |-> 0,
      submitted |-> FALSE, first |-> FALSE,
      current |-> NoSelection, returned |-> NoSelection ]

\* The body of collect_sidebar_inputs when it renders the form and returns:
\* what it does to the session state and to the config cache.
CollectSidebarInputs(key_prefix, defaults, submitted, picked) ==
    LET cur == current_selection(key_prefix, defaults, picked)
        widgets == (microgrid_key(key_prefix) :> cur.microgrid_id)
                   @@ (start_key(key_prefix) :> cur.start_date)
                   @@ (end_key(key_prefix) :> cur.end_date)
                   @@ (timezone_key(key_prefix) :> cur.timezone)
                   @@ (resolution_key(key_prefix) :> cur.resolution)
        stored == IF StoresSelection(key_prefix, submitted)
                  THEN (state_key(key_prefix) :> cur) ELSE NoSelection
        after == stored @@ widgets @@ session_state
    IN /\ ~LoadRaises
       /\ Len(get_microgrid_ids) > 0
       \* the submit button cannot have been pressed before the form was shown
       /\ submitted => microgrid_key(key_prefix) \in DOMAIN session_state
       /\ session_state' = after
       /\ microgrid_configs' = CacheAfterLoad
       /\ rendered' = [ op |-> "rendered", key_prefix |-> key_prefix,
                        defaults |-> defaults, today |-> today,
                        submitted |-> submitted,
                        first |-> state_key(key_prefix) \notin DOMAIN session_state,
                        current |-> cur,
                        returned |-> after[state_key(key_prefix)] ]

\* One call of collect_sidebar_inputs that renders the form and returns.
collect_sidebar_inputs(key_prefix, defaults, submitted, picked) ==
    /\ CollectSidebarInputs(key_prefix, defaults, submitted, picked)
    /\ UNCHANGED <<today, config_dir, fetchVars, timeVars, factoryVars, pageVars, plotVars, appVars>>

\* get_microgrid_ids() raises inside the form: nothing is stored or returned.
collect_sidebar_inputs_raises(key_prefix) ==
    /\ LoadRaises
    /\ rendered' = [NoRender EXCEPT !.op = "raised", !.key_prefix = key_prefix]
    /\ UNCHANGED <<session_state, today, config_dir, microgrid_configs, fetchVars, timeVars, factoryVars, pageVars, plotVars, appVars>>

\* Midnight passes.
NextDay ==
    /\ today < MaxDay
    /\ today' = today + 1
    /\ UNCHANGED <<session_state, rendered, config_dir, microgrid_configs, fetchVars, timeVars, factoryVars, pageVars, plotVars, appVars>>

(***************************************************************************)
(* utils/time.py: to_iso8601 and validate_range.  A date-like value is a   *)
(* date (a day), a datetime or a pandas Timestamp (a day and a minute of   *)
(* that day) or a str; an instant is the pair <<day, minute>>.  Days are   *)
(* days of January 2024.                                                   *)
(***************************************************************************)
Date(day) == [kind |-> "date", day |-> day, minute |-> 0]
DateTime(day, minute) == [kind |-> "datetime", day |-> day, minute |-> minute]
Timestamp(day, minute) == [kind |-> "Timestamp", day |-> day, minute |-> minute]
PyStr(text) == [kind |-> "str", text |-> text]
PyInt(n) == [kind |-> "int", n |-> n]

\* The days and the minutes of day of the values passed to utils/time.py.
TimeDays == 1..MaxDate
TimeMinutes == {0, 720}

\* Two decimal digits.
Pad2(n) == IF n < 10 THEN "0" \o Str(n) ELSE Str(n)

\* date.isoformat()
date_isoformat(day) == "2024-01-" \o Pad2(day)

\* datetime.isoformat() of a naive datetime with whole minutes.
isoformat(day, minute) ==
    date_isoformat(day) \o "T" \o Pad2(minute \div 60) \o ":" \o Pad2(minute % 60) \o ":00"

\* The strings passed in: ISO dates, ISO datetimes, a date in another notation
\* and a string that is no date.
OtherNotation == "2 Jan 2024"
NotADate == "yesterday"

Strings ==
    {date_isoformat(day) : day \in TimeDays}
    \cup {isoformat(day, minute) : day \in TimeDays, minute \in TimeMinutes}
    \cup {OtherNotation, NotADate}

\* DateLike = Union[str, date, datetime], pandas equivalents included.
DateLikes ==
    {Date(day) : day \in TimeDays}
    \cup {DateTime(day, minute) : day \in TimeDays, minute \in TimeMinutes}
    \cup {Timestamp(day, minute) : day \in TimeDays, minute \in TimeMinutes}
    \cup {PyStr(text) : text \in Strings}

\* No instant: the value could not be parsed.
NoInstant == <<>>

\* pandas.to_datetime of a string: an ISO datetime, an ISO date (midnight), the
\* other notation (midnight of 2 January), else a parse error.
ParseDateTime(text) ==
    IF \E day \in TimeDays, minute \in TimeMinutes : text = isoformat(day, minute)
    THEN CHOOSE inst \in TimeDays \X TimeMinutes : text = isoformat(inst[1], inst[2])
    ELSE IF \E day \in TimeDays : text = date_isoformat(day)
    THEN <<CHOOSE day \in TimeDays : text = date_isoformat(day), 0>>
    ELSE IF text = OtherNotation
    THEN <<2, 0>>
    ELSE NoInstant

\* Mutant: the time of day is dropped from every value.
to_datetime_Floor(d) == IF d.kind = "str" THEN ParseDateTime(d.text) ELSE <<d.day, 0>>

\* pandas.to_datetime: a date becomes the midnight of its day, a datetime or a
\* Timestamp keeps its instant, a string is parsed.
to_datetime(d) ==
    IF d.kind = "str" THEN ParseDateTime(d.text)
    ELSE IF d.kind = "date" THEN <<d.day, 0>>
    ELSE <<d.day, d.minute>>

InstantLeq(a, b) == a[1] < b[1] \/ (a[1] = b[1] /\ a[2] <= b[2])

\* The exceptions of validate_range.
InvalidRange == "ValueError: end_date must be after start_date"
ParseFailure == "ValueError: Unknown datetime string format"

\* Mutant: only an end before the start is rejected.
validate_range_AllowsEqual(start, end) ==
    LET start_dt == to_datetime(start)
        end_dt == to_datetime(end)
    IN IF start_dt = NoInstant \/ end_dt = NoInstant
       THEN [ok |-> FALSE, error |-> ParseFailure, start |-> start_dt, end |-> end_dt]
       ELSE IF InstantLeq(end_dt, start_dt) /\ end_dt # start_dt
       THEN [ok |-> FALSE, error |-> InvalidRange, start |-> start_dt, end |-> end_dt]
       ELSE [ok |-> TRUE, error |-> "none", start |-> start_dt, end |-> end_dt]

\* validate_range: to_datetime's error when a value does not parse, ValueError
\* when end_dt <= start_dt, else the pair of instants.
validate_range(start, end) ==
    LET start_dt == to_datetime(start)
        end_dt == to_datetime(end)
    IN IF start_dt = NoInstant \/ end_dt = NoInstant
       THEN [ok |-> FALSE, error |-> ParseFailure, start |-> start_dt, end |-> end_dt]
       ELSE IF InstantLeq(end_dt, start_dt)
       THEN [ok |-> FALSE, error |-> InvalidRange, start |-> start_dt, end |-> end_dt]
       ELSE [ok |-> TRUE, error |-> "none", start |-> start_dt, end |-> end_dt]

InvalidDateLike == "TypeError: Invalid date-like value"

\* Mutant: a date is formatted by its own isoformat().
to_iso8601_DateOnly(d) ==
    IF d.kind = "str" THEN [ok |-> TRUE, error |-> "none", text |-> d.text]
    ELSE IF d.kind \in {"datetime", "Timestamp"}
    THEN [ok |-> TRUE, error |-> "none", text |-> isoformat(d.day, d.minute)]
    ELSE IF d.kind = "date"
    THEN [ok |-> TRUE, error |-> "none", text |-> date_isoformat(d.day)]
    ELSE [ok |-> FALSE, error |-> InvalidDateLike, text |-> ""]

\* to_iso8601: a Timestamp is first turned into a datetime; a str is returned
\* as it is, a datetime as its isoformat(), a date as the isoformat() of its
\* midnight; anything else raises TypeError.
to_iso8601(d) ==
    IF d.kind = "str" THEN [ok |-> TRUE, error |-> "none", text |-> d.text]
    ELSE IF d.kind \in {"datetime", "Timestamp"}
    THEN [ok |-> TRUE, error |-> "none", text |-> isoformat(d.day, d.minute)]
    ELSE IF d.kind = "date"
    THEN [ok |-> TRUE, error |-> "none", text |-> isoformat(d.day, 0)]
    ELSE [ok |-> FALSE, error |-> InvalidDateLike, text |-> ""]

\* The values handed to utils/time.py and what the calls made of them.
NoRange == [ok |-> FALSE, error |-> "none", start |-> NoInstant, end |-> NoInstant]
NoText == [ok |-> FALSE, error |-> "none", text |-> ""]

TimeCall(fn, x, y, range, once, twice) ==
    [fn |-> fn, x |-> x, y |-> y, range |-> range, once |-> once, twice |-> twice]

\* validate_range(x, y) is called.
ValidateRangeCall ==
    /\ time_call.fn = "none"
    /\ time_call.x \in DateLikes
    /\ time_call' = [time_call EXCEPT !.fn = "validate_range",
                                      !.range = validate_range(time_call.x, time_call.y)]
    /\ UNCHANGED <<sidebarVars, configVars, fetchVars, factoryVars, pageVars, plotVars, appVars>>

\* to_iso8601(x) is called.
ToIso8601Call ==
    /\ time_call.fn = "none"
    /\ time_call' = [time_call EXCEPT !.fn = "to_iso8601", !.once = to_iso8601(time_call.x)]
    /\ UNCHANGED <<sidebarVars, configVars, fetchVars, factoryVars, pageVars, plotVars, appVars>>

\* to_iso8601 is called on the string a first call returned.
ToIso8601Again ==
    /\ time_call.fn = "to_iso8601"
    /\ time_call.once.ok
    /\ time_call' = [time_call EXCEPT !.fn = "to_iso8601 twice",
                                      !.twice = to_iso8601(PyStr(time_call.once.text))]
    /\ UNCHANGED <<sidebarVars, configVars, fetchVars, factoryVars, pageVars, plotVars, appVars>>

(***************************************************************************)
(* utils/env.py and services/client_factory.py: get_microgrid_client.      *)
(***************************************************************************)
RequiredEnv == <<"REPORTING_API_URL", "API_KEY", "API_SECRET">>

\* require_env raises when os.getenv(var) is None or "".
EnvMissing(var) == var \notin DOMAIN environ \/ environ[var] = ""

FullEnv ==
    ("REPORTING_API_URL" :> "grpc://reporting") @@ ("API_KEY" :> "key") @@ ("API_SECRET" :> "secret")

\* The environments the process may run in: complete, a blank key, only a URL,
\* a blank URL without a secret, and a blank secret.
EnvChoices ==
    { FullEnv,
      [FullEnv EXCEPT !["API_KEY"] = ""],
      ("REPORTING_API_URL" :> "grpc://reporting"),
      ("REPORTING_API_URL" :> "") @@ ("API_KEY" :> "key"),
      [FullEnv EXCEPT !["API_SECRET"] = ""] }

NoError == "none"

\* Mutant: the last missing variable is the one reported.
FirstMissingEnv_Last ==
    LET i == CHOOSE i \in 1..Len(RequiredEnv) :
                EnvMissing(RequiredEnv[i])
                /\ \A j \in (i + 1)..Len(RequiredEnv) : ~EnvMissing(RequiredEnv[j])
    IN RequiredEnv[i]

\* The first required variable that is missing, as require_env names it.
FirstMissingEnv ==
    LET i == CHOOSE i \in 1..Len(RequiredEnv) :
                EnvMissing(RequiredEnv[i]) /\ \A j \in 1..(i - 1) : ~EnvMissing(RequiredEnv[j])
    IN RequiredEnv[i]

\* The exceptions of the factory, by type and message.
MissingEnvironment(var) == "RuntimeError: Missing or empty required environment variable " \o var
ConfigDirectoryMissing == "RuntimeError: Microgrid config directory not found"
UnknownMicrogrid == "KeyError: Microgrid not found in configured microgrids"
KeyErrorOfLookup == "KeyError"

\* Mutant: the client is built without looking the id up.
get_microgrid_client_NoLookup(microgrid_id) ==
    IF \E i \in 1..Len(RequiredEnv) : EnvMissing(RequiredEnv[i])
    THEN MissingEnvironment(FirstMissingEnv)
    ELSE IF LoadRaises
    THEN ConfigDirectoryMissing
    ELSE NoError

\* get_microgrid_client(microgrid_id): the exception it raises, or NoError when
\* it constructs a client.
get_microgrid_client(microgrid_id) ==
    IF \E i \in 1..Len(RequiredEnv) : EnvMissing(RequiredEnv[i])
    THEN MissingEnvironment(FirstMissingEnv)
    ELSE IF LoadRaises
    THEN ConfigDirectoryMissing
    ELSE IF Str(microgrid_id) \notin DOMAIN LoadedConfigs
    THEN UnknownMicrogrid
    ELSE NoError

\* Whether get_microgrid_client gets as far as _load_microgrid_configs().
ClientLoadsConfigs == \A i \in 1..Len(RequiredEnv) : ~EnvMissing(RequiredEnv[i])

\* component_data.MicrogridData(server_url=..., auth_key=..., sign_secret=...,
\* microgrid_configs=configs)
MicrogridData ==
    [ server_url |-> environ["REPORTING_API_URL"], auth_key |-> environ["API_KEY"],
      sign_secret |-> environ["API_SECRET"], microgrid_configs |-> LoadedConfigs ]

\* Mutant: the client built last is kept and handed out again.
ClientInstance_Cached == IF Len(clients) > 0 THEN Len(clients) ELSE 1

\* The instance a successful get_microgrid_client call returns, by its position
\* among the clients constructed: a new one.
ClientInstance == Len(clients) + 1

ClientsAfter ==
    IF ClientInstance > Len(clients) THEN Append(clients, MicrogridData) ELSE clients

\* get_component_types(microgrid_id)
get_component_types(microgrid_id) == LoadedConfigs[Str(microgrid_id)]

\* get_microgrid_config(microgrid_id)
get_microgrid_config(microgrid_id) == LoadedConfigs[Str(microgrid_id)]

\* _load_microgrid_configs()[str(microgrid_id)]: the exception of the lookup.
LookupError(microgrid_id) ==
    IF LoadRaises THEN ConfigDirectoryMissing
    ELSE IF Str(microgrid_id) \notin DOMAIN LoadedConfigs THEN KeyErrorOfLookup
    ELSE NoError

\* What a factory call did: its exception, the mapping it read, the client
\* instance or the value it returned, and whether st.cache_data served it.
NoValue == <<>>

FactoryCall(fn, microgrid_id, error, configs, client, value, cached) ==
    [ fn |-> fn, microgrid_id |-> microgrid_id, error |-> error, configs |-> configs,
      client |-> client, value |-> value, cached |-> cached ]

NoFactoryCall == FactoryCall("none", 0, NoError, NoConfigs, 0, NoValue, FALSE)

\* The microgrid ids the factory is asked for: two configured, one not.
AskedIds == {1, 2, 9}

\* get_microgrid_client(microgrid_id) is called.
GetMicrogridClient(microgrid_id) ==
    LET error == get_microgrid_client(microgrid_id)
    IN /\ Len(clients) < MaxClients
       /\ microgrid_configs' = IF ClientLoadsConfigs THEN CacheAfterLoad ELSE microgrid_configs
       /\ clients' = IF error = NoError THEN ClientsAfter ELSE clients
       /\ factory_call' = FactoryCall("get_microgrid_client", microgrid_id, error,
                                      IF ClientLoadsConfigs /\ ~LoadRaises THEN LoadedConfigs ELSE NoConfigs,
                                      IF error = NoError THEN ClientInstance ELSE 0, NoValue, FALSE)
       /\ UNCHANGED <<sidebarVars, config_dir, fetchVars, timeVars, ids_cache, pageVars, plotVars, appVars>>

\* get_component_types(microgrid_id) or get_microgrid_config(microgrid_id) is
\* called.
GetMicrogridConfig(fn, microgrid_id) ==
    LET error == LookupError(microgrid_id)
    IN /\ microgrid_configs' = CacheAfterLoad
       /\ factory_call' = FactoryCall(fn, microgrid_id, error,
                                      IF LoadRaises THEN NoConfigs ELSE LoadedConfigs, 0,
                                      IF error = NoError THEN get_microgrid_config(microgrid_id) ELSE NoValue,
                                      FALSE)
       /\ UNCHANGED <<sidebarVars, config_dir, fetchVars, timeVars, clients, ids_cache, pageVars, plotVars, appVars>>

\* The st.cache_data entry of get_microgrid_ids.
NoIds == [stored |-> FALSE, value |-> <<>>, stored_at |-> 0]

\* Mutant: the id list is kept for the time-to-live of the data cache.
IdsCacheLive_Ttl == ids_cache.stored /\ now < ids_cache.stored_at + 300

\* @st.cache_data(show_spinner=False): no ttl, a stored list stays.
IdsCacheLive == ids_cache.stored

\* get_microgrid_ids() is called.
GetMicrogridIds ==
    /\ IF IdsCacheLive
       THEN /\ factory_call' = FactoryCall("get_microgrid_ids", 0, NoError, NoConfigs, 0, ids_cache.value, TRUE)
            /\ UNCHANGED <<ids_cache, microgrid_configs>>
       ELSE IF LoadRaises
       THEN /\ factory_call' = FactoryCall("get_microgrid_ids", 0, ConfigDirectoryMissing, NoConfigs, 0, NoValue, FALSE)
            /\ UNCHANGED <<ids_cache, microgrid_configs>>
       ELSE /\ factory_call' = FactoryCall("get_microgrid_ids", 0, NoError, LoadedConfigs, 0, get_microgrid_ids, FALSE)
            /\ ids_cache' = [stored |-> TRUE, value |-> get_microgrid_ids, stored_at |-> now]
            /\ microgrid_configs' = CacheAfterLoad
    /\ UNCHANGED <<sidebarVars, config_dir, fetchVars, timeVars, clients, pageVars, plotVars, appVars>>

\* The directory as it may look later: also with a third microgrid added, or
\* with a microgrid filed under an "iot" key.
DiskChoicesLater ==
    DiskChoices \cup
    { [exists |-> TRUE,
       configs |-> ("1" :> <<"grid", "pv">>) @@ ("2" :> <<"grid", "chp", "wind">>) @@ ("9" :> <<"grid">>)],
      [exists |-> TRUE,
       configs |-> ("iot1" :> <<"grid", "pv">>) @@ ("2" :> <<"grid", "chp", "wind">>)] }

\* The directory is changed, or MICROGRID_CONFIG_DIR points elsewhere.
DirectoryChanges ==
    /\ \E dir \in DiskChoicesLater \ {config_dir} : config_dir' = dir
    /\ UNCHANGED <<sidebarVars, microgrid_configs, fetchVars, timeVars, factoryVars, pageVars, plotVars, appVars>>

\* The required variables are changed.
EnvironChanges ==
    /\ \E env \in EnvChoices \ {environ} : environ' = env
    /\ UNCHANGED <<sidebarVars, configVars, now, data_cache, call, last, upstream_requests, timeVars, factoryVars, pageVars, plotVars, appVars>>

(***************************************************************************)
(* services/data_service.py: fetch_microgrid_data and get_microgrid_data.  *)
(***************************************************************************)
\* The exceptions of the fetch path, by type and message.
ReentrantAsyncCall == "RuntimeError: get_microgrid_data called from within an active event loop, use await fetch_microgrid_data"
Timeout == "TimeoutError"
TransportFailure == "OSError: transport failure"

\* @st.cache_data(ttl=300)
TTL == 300

\* The clock advances in steps of half the time-to-live.
TimeStep == TTL \div 2

\* Upstream results: None or a table with columns and rows.
PyNone == [kind |-> "None", cols |-> <<>>, rows |-> <<>>]
DataFrame(cols, rows) == [kind |-> "DataFrame", cols |-> cols, rows |-> rows]

\* pd.DataFrame()
pd_DataFrame == DataFrame(<<>>, <<>>)

\* No value: the call raised, or is still running.
Nothing == [kind |-> "nothing", cols |-> <<>>, rows |-> <<>>]

UpstreamResults ==
    { PyNone,
      DataFrame(<<"grid", "pv">>, <<>>),
      DataFrame(<<"grid", "pv">>, << <<5, 2>>, <<4, 3>> >>) }

\* hasattr(df, "empty") and df.empty
HasEmpty(df) == df.kind = "DataFrame"
IsEmpty(df) == Len(df.cols) = 0 \/ Len(df.rows) = 0

\* Mutant: the upstream result is returned as it came.
NormalizeResult_AsIs(df) == df

\* if df is None or (hasattr(df, "empty") and df.empty): return pd.DataFrame()
NormalizeResult(df) ==
    IF df = PyNone \/ (HasEmpty(df) /\ IsEmpty(df)) THEN pd_DataFrame ELSE df

Args(microgrid_id, start_date, end_date, resolution, timeout) ==
    [ microgrid_id |-> microgrid_id, start_date |-> start_date, end_date |-> end_date,
      resolution |-> resolution, timeout |-> timeout ]

\* The argument tuples the model calls with: two valid ranges of a configured
\* microgrid, an empty range, and a microgrid that is not configured.
ArgSet ==
    { Args(1, DateTime(0, 0), DateTime(1, 0), 15, TimeStep),
      Args(1, DateTime(0, 0), DateTime(2, 0), 15, TimeStep),
      Args(1, DateTime(1, 0), DateTime(1, 0), 15, TimeStep),
      Args(9, DateTime(0, 0), DateTime(1, 0), 15, TimeStep) }

NoArgs == Args(0, Date(0), Date(0), 0, 0)

NoCall == [pc |-> "idle", fn |-> "none", args |-> NoArgs, deadline |-> 0]

NoLast ==
    [ fn |-> "none", args |-> NoArgs, loop_running |-> FALSE, kind |-> "none",
      error |-> NoError, upstream |-> Nothing, value |-> Nothing, steps |-> <<>> ]

Outcome(fn, args, loop_running, kind, error, upstream, value) ==
    [ fn |-> fn, args |-> args, loop_running |-> loop_running, kind |-> kind,
      error |-> error, upstream |-> upstream, value |-> value, steps |-> <<>> ]

\* Mutant: nothing is ever served from the cache.
CacheLive_Never(args) == FALSE

\* st.cache_data lookup: an entry stored under the full argument tuple less
\* than TTL seconds ago.
CacheLive(args) ==
    args \in DOMAIN data_cache /\ now < data_cache[args].stored_at + TTL

\* st.cache_data store: the value under the full argument tuple, stamped now.
CacheStore(args, value) ==
    (args :> [value |-> value, stored_at |-> now]) @@ data_cache

\* Mutant: a hit restarts the entry's time-to-live.
CacheAfterHit_Sliding(args) ==
    [data_cache EXCEPT ![args] = [@ EXCEPT !.stored_at = now]]

\* A cache hit leaves the entries as they are.
CacheAfterHit(args) == data_cache

\* Mutant: a call that raises leaves an empty table in the cache.
CacheAfterRaise_StoresEmpty(args) == CacheStore(args, pd_DataFrame)

\* An exception leaves the cached function without a return value: nothing
\* is stored.
CacheAfterRaise(args) == data_cache

\* The calls get_microgrid_client makes, in order, up to the one that raises:
\* require_env per variable, _load_microgrid_configs, the constructor.
ClientSteps(microgrid_id) ==
    LET reads == IF ClientLoadsConfigs THEN Len(RequiredEnv)
                 ELSE CHOOSE i \in 1..Len(RequiredEnv) : RequiredEnv[i] = FirstMissingEnv
    IN [i \in 1..reads |-> "require_env"]
       \o (IF ClientLoadsConfigs THEN <<"_load_microgrid_configs">> ELSE <<>>)
       \o (IF get_microgrid_client(microgrid_id) = NoError THEN <<"MicrogridData">> ELSE <<>>)

\* Mutant: the client is obtained before the range is validated.
FetchSteps_ClientFirst(args) ==
    ClientSteps(args.microgrid_id)
    \o (IF get_microgrid_client(args.microgrid_id) # NoError THEN <<>>
        ELSE <<"validate_range">>
             \o (IF validate_range(args.start_date, args.end_date).ok
                 THEN <<"get_component_types", "ac_active_power">> ELSE <<>>))

\* The calls fetch_microgrid_data makes, in order, up to the one that raises.
FetchSteps(args) ==
    <<"validate_range">>
    \o (IF ~validate_range(args.start_date, args.end_date).ok THEN <<>>
        ELSE ClientSteps(args.microgrid_id)
             \o (IF get_microgrid_client(args.microgrid_id) = NoError
                 THEN <<"get_component_types", "ac_active_power">> ELSE <<>>))

\* The body of fetch_microgrid_data up to the await: validate the range, get a
\* client, resolve the component types, issue the request. The exception is
\* that of the last call made.
FetchStart(fn, args, loop_running) ==
    \E steps \in {FetchSteps(args)} :
      \E requests \in {Cardinality({i \in DOMAIN steps : steps[i] = "ac_active_power"})} :
        LET Did(step) == \E i \in DOMAIN steps : steps[i] = step
            error == IF requests > 0 THEN NoError
                     ELSE IF steps[Len(steps)] = "validate_range"
                     THEN validate_range(args.start_date, args.end_date).error
                     ELSE get_microgrid_client(args.microgrid_id)
        IN /\ requests > 0 => (upstream_requests < MaxRequests /\ now + args.timeout <= MaxTime)
           /\ microgrid_configs' =
                 IF Did("_load_microgrid_configs") THEN CacheAfterLoad ELSE microgrid_configs
           /\ clients' = IF Did("MicrogridData") THEN ClientsAfter ELSE clients
           /\ upstream_requests' = upstream_requests + requests
           /\ call' = IF requests > 0
                      THEN [ pc |-> "awaiting", fn |-> fn, args |-> args, deadline |-> now + args.timeout ]
                      ELSE call
           /\ last' = [ Outcome(fn, args, loop_running, IF requests > 0 THEN "pending" ELSE "raised",
                                error, Nothing, Nothing) EXCEPT !.steps = steps ]

\* get_microgrid_data(...) is called: a live cache entry is returned; otherwise
\* the body runs, which raises under a running event loop and else drives
\* fetch_microgrid_data.
GetMicrogridData(args, loop_running) ==
    /\ call.pc = "idle"
    /\ IF CacheLive(args)
       THEN /\ last' = Outcome("get_microgrid_data", args, loop_running, "hit", NoError, Nothing, data_cache[args].value)
            /\ data_cache' = CacheAfterHit(args)
            /\ UNCHANGED <<microgrid_configs, call, upstream_requests, clients>>
       ELSE IF loop_running
       THEN /\ last' = Outcome("get_microgrid_data", args, loop_running, "raised", ReentrantAsyncCall, Nothing, Nothing)
            /\ data_cache' = CacheAfterRaise(args)
            /\ UNCHANGED <<microgrid_configs, call, upstream_requests, clients>>
       ELSE /\ FetchStart("get_microgrid_data", args, loop_running)
            /\ data_cache' = IF last'.kind = "raised" THEN CacheAfterRaise(args) ELSE data_cache

get_microgrid_data(args, loop_running) ==
    /\ GetMicrogridData(args, loop_running)
    /\ UNCHANGED <<sidebarVars, config_dir, environ, now, timeVars, factory_call, ids_cache, pageVars, plotVars, appVars>>

\* `await fetch_microgrid_data(...)` from asynchronous code.
fetch_microgrid_data(args) ==
    /\ call.pc = "idle"
    /\ FetchStart("fetch_microgrid_data", args, TRUE)
    /\ UNCHANGED <<sidebarVars, config_dir, environ, now, data_cache, timeVars, factory_call, ids_cache, pageVars, plotVars, appVars>>

\* The request completes with `df` before the timeout: the normalized table is
\* returned, and stored when the cached wrapper made the call.
UpstreamResponds(df) ==
    /\ call.pc = "awaiting"
    /\ now <= call.deadline
    /\ last' = [last EXCEPT !.kind = "returned", !.upstream = df, !.value = NormalizeResult(df)]
    /\ data_cache' = IF call.fn = "get_microgrid_data"
                     THEN CacheStore(call.args, NormalizeResult(df)) ELSE data_cache
    /\ call' = NoCall
    /\ UNCHANGED <<sidebarVars, configVars, environ, now, upstream_requests, timeVars, factoryVars, pageVars, plotVars, appVars>>

\* The request fails in transport: the exception propagates.
UpstreamFails ==
    /\ call.pc = "awaiting"
    /\ now <= call.deadline
    /\ last' = [last EXCEPT !.kind = "raised", !.error = TransportFailure]
    /\ data_cache' = IF call.fn = "get_microgrid_data" THEN CacheAfterRaise(call.args) ELSE data_cache
    /\ call' = NoCall
    /\ UNCHANGED <<sidebarVars, configVars, environ, now, upstream_requests, timeVars, factoryVars, pageVars, plotVars, appVars>>

\* Mutant: the request is awaited without wait_for.
TimeoutFires_NoWaitFor == FALSE /\ UNCHANGED vars

\* asyncio.wait_for(coro, timeout): at the deadline the request is cancelled
\* and TimeoutError raised.
TimeoutFires ==
    /\ call.pc = "awaiting"
    /\ now >= call.deadline
    /\ last' = [last EXCEPT !.kind = "raised", !.error = Timeout]
    /\ data_cache' = IF call.fn = "get_microgrid_data" THEN CacheAfterRaise(call.args) ELSE data_cache
    /\ call' = NoCall
    /\ UNCHANGED <<sidebarVars, configVars, environ, now, upstream_requests, timeVars, factoryVars, pageVars, plotVars, appVars>>

\* How far the clock moves in one step: to the deadline of a pending wait_for
\* when that is nearer than TimeStep.
ClockStep ==
    IF call.pc = "awaiting" /\ call.deadline - now < TimeStep
    THEN call.deadline - now ELSE TimeStep

\* Time passes, but not past the deadline of a pending wait_for.
Tick ==
    /\ now + ClockStep <= MaxTime
    /\ call.pc = "awaiting" => now < call.deadline
    /\ now' = now + ClockStep
    /\ UNCHANGED <<sidebarVars, configVars, environ, data_cache, call, last, upstream_requests, timeVars, factoryVars, pageVars, plotVars, appVars>>

(***************************************************************************)
(* app_pages/reporting.py: one render pass of the reporting page.          *)
(***************************************************************************)
\* A timezone-aware datetime: wall-clock day and minute, and the zone.
DateTimeTz(day, minute, tz) == [kind |-> "datetime", day |-> day, minute |-> minute, tz |-> tz]

\* set_date_to_midnight(d, timezone): midnight of that date in that zone.
set_date_to_midnight(day, tz) == DateTimeTz(day, 0, tz)

\* dt + timedelta(days=n) on an aware datetime: the same wall-clock time n days
\* later, in the same zone.
timedelta_add_days(dt, days) == [dt EXCEPT !.day = @ + days]

\* The offset from UTC, in minutes, of a wall-clock time: none in UTC; in
\* Europe/Berlin summer time ends at 03:00 of day 0, which has 25 hours.
utcoffset(dt) ==
    IF dt.tz = "UTC" THEN 0
    ELSE IF dt.day < 0 \/ (dt.day = 0 /\ dt.minute < 180) THEN 120
    ELSE 60

\* The instant of an aware datetime, in minutes of UTC.
UtcMinutes(dt) == dt.day * 1440 + dt.minute - utcoffset(dt)

\* _parse_resolution: "<digits><unit>" with unit min, hour or h gives minutes;
\* anything else raises ValueError, here 0.
ResolutionUnits == {"min", "hour", "h"}

parse_resolution(resolution_str) ==
    IF \E value \in 1..60, unit \in ResolutionUnits : resolution_str = Str(value) \o unit
    THEN LET m == CHOOSE m \in (1..60) \X ResolutionUnits : resolution_str = Str(m[1]) \o m[2]
         IN m[1] * (IF m[2] \in {"hour", "h"} THEN 60 ELSE 1)
    ELSE 0

\* Mutant: the end of the request is the midnight that begins end_date.
fetch_end_date_NotExtended(end_date) == end_date

\* fetch_end_date = end_date + timedelta(days=1)
fetch_end_date(end_date) == timedelta_add_days(end_date, 1)

\* timeout: float = 30.0, the default the page calls with.
DefaultTimeout == 30

\* The exceptions `except (RuntimeError, ValueError, OSError)` catches.
CaughtByPage ==
    {ReentrantAsyncCall, ConfigDirectoryMissing, InvalidRange, ParseFailure, TransportFailure}
    \cup {MissingEnvironment(RequiredEnv[i]) : i \in 1..Len(RequiredEnv)}

\* Mutant: an empty table goes on to the dashboard.
AfterFetch_IgnoresEmpty ==
    IF last.kind = "raised"
    THEN IF last.error \in CaughtByPage THEN {"fetch failed"}
         ELSE IF last.error = Timeout THEN {"fetch failed", "raised"}
         ELSE {"raised"}
    ELSE {"dashboard"}

\* How the pass goes on after get_microgrid_data: a caught exception is shown
\* and the pass stopped, another one propagates (asyncio's TimeoutError is an
\* OSError from Python 3.11 on, not before), an empty table stops the pass with
\* a warning, any other table goes to the dashboard.
AfterFetch ==
    IF last.kind = "raised"
    THEN IF last.error \in CaughtByPage THEN {"fetch failed"}
         ELSE IF last.error = Timeout THEN {"fetch failed", "raised"}
         ELSE {"raised"}
    ELSE IF IsEmpty(last.value) THEN {"empty"}
    ELSE {"dashboard"}

\* What the pass shows last, by its outcome.
LastShown(outcome) ==
    IF outcome \in {"range", "empty"} THEN "warning"
    ELSE IF outcome \in {"resolution", "fetch failed"} THEN "error"
    ELSE IF outcome = "raised" THEN "exception"
    ELSE "dashboard"

\* The render pass: where it is, how it ended, the Selection it works on, the
\* request it made, the get_microgrid_data calls and the upstream requests
\* counted at its start, and what it has shown.
PageState(pc, outcome, selections, request, fetches, requests_before, shown, passes) ==
    [ pc |-> pc, outcome |-> outcome, selections |-> selections, request |-> request,
      fetches |-> fetches, requests_before |-> requests_before, shown |-> shown,
      passes |-> passes ]

\* No render pass of the reporting page has run.
NoPage == PageState("idle", "none", NoSelection, NoArgs, 0, 0, <<>>, 0)

\* What the user may have left in the form of the reporting page.
PagePicks ==
    { picked \in Picks : /\ picked.microgrid_id = get_microgrid_ids[1]
                         /\ picked.resolution = resolution_options[1] }

\* render(): the header and the sidebar form.
RenderCollects(submitted, picked) ==
    /\ page.pc \in {"idle", "done"}
    /\ call.pc = "idle"
    /\ page.passes < MaxPasses
    /\ CollectSidebarInputs("", PageDefaults, submitted, picked)
    /\ page' = PageState("collected", "none", rendered'.returned, NoArgs, 0, upstream_requests,
                         <<"title", "sidebar">>, page.passes + 1)
    /\ UNCHANGED <<today, config_dir, fetchVars, timeVars, factoryVars, plotVars, appVars>>

\* render() when get_microgrid_ids raises inside the form.
RenderCollectRaises ==
    /\ page.pc \in {"idle", "done"}
    /\ call.pc = "idle"
    /\ page.passes < MaxPasses
    /\ LoadRaises
    /\ rendered' = [NoRender EXCEPT !.op = "raised"]
    /\ page' = PageState("done", "raised", NoSelection, NoArgs, 0, upstream_requests,
                         <<"title", "exception">>, page.passes + 1)
    /\ UNCHANGED <<session_state, today, configVars, fetchVars, timeVars, factoryVars, plotVars, appVars>>

\* render() from the Selection to the get_microgrid_data call.
RenderFetches ==
    /\ page.pc = "collected"
    /\ LET selections == page.selections
           start_date == set_date_to_midnight(selections.start_date, selections.timezone)
           end_date == set_date_to_midnight(selections.end_date, selections.timezone)
           resolution == parse_resolution(selections.resolution)
           request == Args(selections.microgrid_id, start_date, fetch_end_date(end_date),
                           resolution, DefaultTimeout)
       IN IF UtcMinutes(start_date) > UtcMinutes(end_date)
          THEN /\ page' = [page EXCEPT !.pc = "done", !.outcome = "range",
                                       !.shown = Append(@, LastShown("range"))]
               /\ UNCHANGED <<microgrid_configs, data_cache, call, last, upstream_requests, clients>>
          ELSE IF resolution = 0
          THEN /\ page' = [page EXCEPT !.pc = "done", !.outcome = "resolution",
                                       !.shown = Append(@, LastShown("resolution"))]
               /\ UNCHANGED <<microgrid_configs, data_cache, call, last, upstream_requests, clients>>
          ELSE IF LookupError(selections.microgrid_id) # NoError
          THEN /\ page' = [page EXCEPT !.pc = "done", !.outcome = "raised",
                                       !.shown = Append(@, LastShown("raised"))]
               /\ microgrid_configs' = CacheAfterLoad
               /\ UNCHANGED <<data_cache, call, last, upstream_requests, clients>>
          ELSE /\ GetMicrogridData(request, FALSE)
               /\ page' = [page EXCEPT !.pc = "fetching", !.request = request,
                                       !.fetches = @ + 1, !.shown = Append(@, "spinner")]
    /\ UNCHANGED <<sidebarVars, config_dir, environ, now, timeVars, factory_call, ids_cache, plotVars, appVars>>

\* render() after get_microgrid_data has returned or raised.
RenderCompletes ==
    /\ page.pc = "fetching"
    /\ call.pc = "idle"
    /\ \E outcome \in AfterFetch :
          page' = [page EXCEPT !.pc = "done", !.outcome = outcome,
                               !.shown = Append(@, LastShown(outcome))]
    /\ UNCHANGED <<sidebarVars, configVars, fetchVars, timeVars, factoryVars, plotVars, appVars>>

\* The clock runs while the page waits for the request.
AwaitElapses == call.pc = "awaiting" /\ Tick

(***************************************************************************)
(* components/plot_charts.py: plot_percentage_bar.                         *)
(***************************************************************************)
\* The mapping has at most MaxPoints entries, of values up to MaxValue.
MaxPoints == 3
MaxValue == 3

\* dict[str, float | None]: a value is a number or None.
PyFloat(x) == [kind |-> "float", value |-> x]
NoFloat == [kind |-> "None", value |-> 0]

TotalLabel == "Total (kWh)"
OthersLabel == "Others"
Labels == {TotalLabel, "A", "B", OthersLabel}
\* Values may be negative.
PlotValues == {PyFloat(x) : x \in (-1)..MaxValue} \cup {NoFloat}

\* A dict keeps its entries in insertion order: a sequence of entries with
\* distinct keys.
Item(k, v) == [k |-> k, v |-> v]
Keys(d) == {d[i].k : i \in DOMAIN d}
IsDict(d) == \A i, j \in DOMAIN d : d[i].k = d[j].k => i = j
Dicts ==
    { d \in UNION {[1..n -> {Item(k, v) : k \in Labels, v \in PlotValues}] : n \in 0..MaxPoints} :
        IsDict(d) }

\* d[k]
Get(d, k) == d[CHOOSE i \in DOMAIN d : d[i].k = k].v

\* d[k] = v: an existing key keeps its place, a new key goes last.
Put(d, k, v) ==
    IF k \in Keys(d)
    THEN [i \in DOMAIN d |-> IF d[i].k = k THEN Item(k, v) ELSE d[i]]
    ELSE Append(d, Item(k, v))

Max(a, b) == IF a >= b THEN a ELSE b

\* sum(v for k, v in d.items())
RECURSIVE SumValues(_)
SumValues(d) == IF d = <<>> THEN 0 ELSE Head(d).v + SumValues(Tail(d))

\* A float quotient n / d, kept exact as a fraction.
Quotient(n, d) == [num |-> n, den |-> d]
ZeroDivision == [num |-> 0, den |-> 0]
Divide(n, d) == IF d = 0 THEN ZeroDivision ELSE Quotient(n, d)

\* clean = {k: (float(v) if v is not None else 0.0) ...}
Clean(data_points) ==
    [i \in DOMAIN data_points |->
        Item(data_points[i].k,
             IF data_points[i].v = NoFloat THEN 0 ELSE data_points[i].v.value)]

\* Mutant: only a negative total gives the placeholder.
NoDataToDisplay_NegativeOnly(total) == total < 0

\* if total <= 0: the figure carries the "no data" annotation only.
NoDataToDisplay(total) == total <= 0

Components(clean, total_key) == SelectSeq(clean, LAMBDA e : e.k # total_key)

\* used = sum(v for k, v in clean.items() if k != total_key)
Used(clean, total_key) == SumValues(Components(clean, total_key))

\* segments = {k: v for k, v in clean.items() if k != total_key and v > 0}
PositiveSegments(clean, total_key) ==
    SelectSeq(clean, LAMBDA e : e.k # total_key /\ e.v > 0)

\* Mutant: the percentages are always taken of the total.
display_base_Total(total, used) == total

\* display_base = max(total, used)
display_base(total, used) == Max(total, used)

\* leftover = max(0.0, display_base - used)
Leftover(total, used) == Max(0, display_base(total, used) - used)

\* if leftover > 0: segments["Others"] = leftover
WithOthers(segments, leftover) ==
    IF leftover > 0 THEN Put(segments, OthersLabel, leftover) ELSE segments

\* (k, v, (v / display_base * 100.0 if display_base > 0 else 0.0))
Percentage(v, base) == IF base > 0 THEN Divide(v * 100, base) ELSE Quotient(0, 1)

Segment(label, value, pct) == [label |-> label, value |-> value, pct |-> pct]

seg_with_pct(segments, base) ==
    [i \in DOMAIN segments |->
        Segment(segments[i].k, segments[i].v, Percentage(segments[i].v, base))]

\* One step of the stable sort: x goes after the entries not smaller than it.
RECURSIVE InsertDescending(_, _)
InsertDescending(sorted, x) ==
    IF sorted = <<>> THEN <<x>>
    ELSE IF Head(sorted).value >= x.value
         THEN <<Head(sorted)>> \o InsertDescending(Tail(sorted), x)
         ELSE <<x>> \o sorted

\* seg_with_pct.sort(key=lambda x: x[1], reverse=True): stable.
RECURSIVE SortDescending(_)
SortDescending(segs) ==
    IF segs = <<>> THEN <<>>
    ELSE InsertDescending(SortDescending(SubSeq(segs, 1, Len(segs) - 1)), segs[Len(segs)])

\* What a call gave: a figure with its bar segments, the "no data" figure,
\* or an exception; `divisions` counts the divisions evaluated.
PlotResult(kind, segments, divisions) ==
    [kind |-> kind, segments |-> segments, divisions |-> divisions]

NoPlot == PlotResult("none", <<>>, 0)

BarFigure(segs) ==
    IF \E i \in DOMAIN segs : segs[i].pct = ZeroDivision
    THEN PlotResult("ZeroDivisionError", <<>>, Len(segs))
    ELSE PlotResult("bar", segs, Len(segs))

plot_percentage_bar(data_points, total_key) ==
    IF total_key \notin Keys(data_points) THEN PlotResult("ValueError", <<>>, 0)
    ELSE LET clean == Clean(data_points)
             total == Get(clean, total_key)
             used == Used(clean, total_key)
             base == display_base(total, used)
             segments == WithOthers(PositiveSegments(clean, total_key), Leftover(total, used))
         IN  IF NoDataToDisplay(total) THEN PlotResult("no data", <<>>, 0)
             ELSE BarFigure(SortDescending(seg_with_pct(segments, base)))

PlotCall(pc, data_points, total_key, fig) ==
    [pc |-> pc, data_points |-> data_points, total_key |-> total_key, fig |-> fig]

NoPlotCall == PlotCall("idle", <<>>, TotalLabel, NoPlot)

\* plot_percentage_bar(data_points, total_key) is called.
PlotPercentageBar ==
    /\ plot_call.pc = "called"
    /\ plot_call' = [plot_call EXCEPT !.pc = "returned",
                        !.fig = plot_percentage_bar(plot_call.data_points, plot_call.total_key)]
    /\ UNCHANGED <<sidebarVars, configVars, fetchVars, timeVars, factoryVars, pageVars, appVars>>

(***************************************************************************)
(* app.py: page discovery and the sidebar navigation.                      *)
(***************************************************************************)
NoModules == [library |-> FALSE, modules |-> <<>>]

\* At most MaxModules page modules, with orders up to MaxOrder.
MaxModules == 2
MaxOrder == 1

\* A Python str in app.py is the sequence of its characters.
Uppercase == << "A", "B", "C", "D", "E", "F", "G", "H", "I", "J", "K", "L", "M",
                "N", "O", "P", "Q", "R", "S", "T", "U", "V", "W", "X", "Y", "Z" >>
Lowercase == << "a", "b", "c", "d", "e", "f", "g", "h", "i", "j", "k", "l", "m",
                "n", "o", "p", "q", "r", "s", "t", "u", "v", "w", "x", "y", "z" >>

IsUpper(c) == \E i \in DOMAIN Uppercase : Uppercase[i] = c
Position(letters, c) == CHOOSE i \in DOMAIN letters : letters[i] = c

\* ord(c) of a letter: "A" is 65, "a" is 97.
Ord(c) == IF IsUpper(c) THEN 64 + Position(Uppercase, c) ELSE 96 + Position(Lowercase, c)

\* s.lower()
Lower(s) == [i \in DOMAIN s |-> IF IsUpper(s[i]) THEN Lowercase[Position(Uppercase, s[i])] ELSE s[i]]

\* s < t on str: by the first character that differs, a prefix first.
RECURSIVE StrLess(_, _)
StrLess(s, t) ==
    IF t = <<>> THEN FALSE
    ELSE IF s = <<>> THEN TRUE
    ELSE IF Head(s) # Head(t) THEN Ord(Head(s)) < Ord(Head(t))
    ELSE StrLess(Tail(s), Tail(t))

\* PageSpec(key=..., title=..., icon=..., order=..., render=render)
PAGE(key, title, icon, order) == [key |-> key, title |-> title, icon |-> icon, order |-> order]

\* A module without a PAGE attribute, or one whose name starts with "_".
NoPAGE == PAGE(<<>>, <<>>, "", 0)

home_key == <<"h", "o", "m", "e">>
reporting_key == <<"r", "e", "p", "o", "r", "t", "i", "n", "g">>
solar_key == <<"s">>

\* The pages a module may define: Home, reports and Solar, in any order slot.
ModulePages ==
    { PAGE(home_key, <<"H", "o", "m", "e">>, "house", order) : order \in 0..MaxOrder }
    \cup { PAGE(reporting_key, <<"r", "e", "p", "o", "r", "t", "s">>, "chart", order) : order \in 0..MaxOrder }
    \cup { PAGE(solar_key, <<"S", "o", "l", "a", "r">>, "sun", order) : order \in 0..MaxOrder }

\* The modules of an app_pages directory, in the order of their file names,
\* each with its PAGE; keys are unique.
ModuleLists ==
    { modules \in UNION {[1..n -> ModulePages \cup {NoPAGE}] : n \in 0..MaxModules} :
        \A i, j \in DOMAIN modules :
            (modules[i] # NoPAGE /\ modules[i].key = modules[j].key) => i = j }

\* if page and all(hasattr(page, attr) for attr in (...)): pages.append(page)
PagesOf(modules) == SelectSeq(modules, LAMBDA m : m # NoPAGE)

\* _load_local_pages(): the pages of sorted(APP_PAGES_DIR.glob("*.py")), in
\* that order.
load_local_pages == PagesOf(app_pages.modules)

\* key=lambda p: (p.order, p.title.lower())
SortKeyLess(p, q) ==
    p.order < q.order \/ (p.order = q.order /\ StrLess(Lower(p.title), Lower(q.title)))

\* One step of sorted(): p goes after the pages whose key is not greater.
RECURSIVE InsertByKey(_, _)
InsertByKey(sorted, p) ==
    IF sorted = <<>> THEN <<p>>
    ELSE IF SortKeyLess(p, Head(sorted)) THEN <<p>> \o sorted
    ELSE <<Head(sorted)>> \o InsertByKey(Tail(sorted), p)

\* sorted(pages, key=...): stable.
RECURSIVE SortedPages(_)
SortedPages(ps) ==
    IF ps = <<>> THEN <<>>
    ELSE InsertByKey(SortedPages(SubSeq(ps, 1, Len(ps) - 1)), ps[Len(ps)])

\* discover_library_pages(): the sorted pages of the library package, or, when
\* importing it raises ModuleNotFoundError, what _load_local_pages() returns.
discover_library_pages ==
    IF ~app_pages.library THEN load_local_pages
    ELSE SortedPages(PagesOf(app_pages.modules))

\* st.query_params: no parameter, or the `page` parameter of the URL.
NoParams == [k \in {} |-> <<>>]
QueryParams(value) == [k \in {"page"} |-> value]

\* The `page` values a URL may carry: empty, a page's key, or something else.
UrlPages == {<<>>, home_key, reporting_key, solar_key, <<"x">>}

IndexError == "IndexError: string index out of range"

\* st.query_params.get("page", [pages[0].key])[0]: the parameter is a str, its
\* [0] the first character; without the parameter, [0] of the default list.
default_key_of_url(ps) ==
    IF "page" \in DOMAIN query_params
    THEN SubSeq(query_params["page"], 1, 1)
    ELSE ps[1].key

\* f"{p.icon} {p.title}"
Label(p) == <<p.icon, " ">> \o p.title

ValidKeys(ps) == {ps[i].key : i \in DOMAIN ps}

\* next((idx for idx, page in enumerate(pages) if page.key == current_key), 0)
InitialIndex(ps, current_key) ==
    IF current_key \in ValidKeys(ps)
    THEN CHOOSE i \in DOMAIN ps : ps[i].key = current_key
    ELSE 1

\* st.sidebar.radio(options, index=initial_index, key="navigation_radio"): the
\* option clicked, else the one the widget holds, else the one at `index`.
Radio(ps, initial_index, clicked) ==
    IF clicked # 0 THEN Label(ps[clicked])
    ELSE IF /\ "navigation_radio" \in DOMAIN session_state
            /\ \E i \in DOMAIN ps : Label(ps[i]) = session_state["navigation_radio"]
    THEN session_state["navigation_radio"]
    ELSE Label(ps[initial_index])

\* options.get(label, pages[0].key)
get_key_from_label(ps, label) ==
    IF \E i \in DOMAIN ps : Label(ps[i]) = label
    THEN ps[CHOOSE i \in DOMAIN ps : Label(ps[i]) = label].key
    ELSE ps[1].key

\* What a run of main() did: whether sidebar(pages) ran, the page it returned,
\* the option the user clicked (0: none), and the exception, if any.
Navigation(ran, returned, clicked, error) ==
    [ran |-> ran, returned |-> returned, clicked |-> clicked, error |-> error]

NoNavigation == Navigation(FALSE, NoPAGE, 0, NoError)

\* sidebar(pages) for a non-empty page list.
Sidebar(ps, clicked) ==
    IF "page" \in DOMAIN query_params /\ query_params["page"] = <<>>
    THEN /\ selected' = Navigation(TRUE, NoPAGE, clicked, IndexError)
         /\ UNCHANGED <<session_state, query_params>>
    ELSE LET url_key == default_key_of_url(ps)
             default_key == IF url_key \notin ValidKeys(ps) THEN ps[1].key ELSE url_key
             selected_label == Radio(ps, InitialIndex(ps, default_key), clicked)
             selected_key == get_key_from_label(ps, selected_label)
         IN /\ session_state' = ("selected_page" :> selected_key)
                                   @@ ("navigation_radio" :> selected_label) @@ session_state
            /\ query_params' = IF default_key # selected_key
                               THEN QueryParams(selected_key) ELSE query_params
            /\ selected' = Navigation(TRUE, ps[CHOOSE i \in DOMAIN ps : ps[i].key = selected_key],
                                      clicked, NoError)

\* main(): discover the pages; without pages only a notice is shown, else the
\* sidebar picks the page to render.
Main(clicked) ==
    /\ pages' = discover_library_pages
    /\ clicked <= Len(discover_library_pages)
    /\ clicked # 0 => selected.ran
    /\ IF discover_library_pages = <<>>
       THEN /\ selected' = NoNavigation
            /\ UNCHANGED <<session_state, query_params>>
       ELSE Sidebar(discover_library_pages, clicked)
    /\ UNCHANGED <<today, rendered, configVars, fetchVars, timeVars, factoryVars, pageVars, plotVars, app_pages>>

\* The application is opened in a new session, with or without ?page=...
OpenUrl ==
    /\ session_state' = NoSelection
    /\ selected' = NoNavigation
    /\ \E params \in {NoParams} \cup {QueryParams(value) : value \in UrlPages} :
          /\ params # query_params \/ session_state # NoSelection
          /\ query_params' = params
    /\ UNCHANGED <<today, rendered, configVars, fetchVars, timeVars, factoryVars, pageVars, plotVars, app_pages, pages>>

FetchIdle ==
    /\ now = 0
    /\ data_cache = [a \in {} |-> Nothing]
    /\ call = NoCall
    /\ last = NoLast
    /\ upstream_requests = 0

\* No call of utils/time.py has been made: x and y are the values to be passed.
NoTimeCall == TimeCall("none", PyInt(0), PyInt(0), NoRange, NoText, NoText)

TimeIdle == time_call = NoTimeCall

FactoryIdle ==
    /\ clients = <<>>
    /\ factory_call = NoFactoryCall
    /\ ids_cache = NoIds

SidebarIdle ==
    /\ session_state = NoSelection
    /\ rendered = NoRender

PageIdle == page = NoPage

PlotIdle == plot_call = NoPlotCall

AppIdle ==
    /\ app_pages = NoModules
    /\ pages = <<>>
    /\ query_params = NoParams
    /\ selected = NoNavigation

\* The form of `key_prefix` has been shown before: its widgets hold values.
FormShown(key_prefix) == microgrid_key(key_prefix) \in DOMAIN session_state

\* A render of the form: its first one takes the caller's defaults, a later one
\* the values the user left in the widgets.
Render(key_prefix, argSet, pickSet) ==
    \/ /\ ~FormShown(key_prefix)
       /\ \E defaults \in argSet :
             collect_sidebar_inputs(key_prefix, defaults, FALSE, CHOOSE picked \in Picks : TRUE)
    \/ /\ FormShown(key_prefix)
       /\ \E submitted \in BOOLEAN, picked \in pickSet :
             collect_sidebar_inputs(key_prefix, PageDefaults, submitted, picked)

SidebarInit ==
    /\ SidebarIdle
    /\ today \in Days
    /\ config_dir \in DiskChoices
    /\ microgrid_configs = NotLoaded
    /\ environ = FullEnv
    /\ FetchIdle
    /\ TimeIdle
    /\ FactoryIdle
    /\ PageIdle
    /\ PlotIdle
    /\ AppIdle

\* The reporting page's collector (key_prefix = ""), any defaults and edits.
SidebarNext ==
    \/ Render("", DefaultArgs, Picks)
    \/ collect_sidebar_inputs_raises("")
    \/ NextDay

\* The key prefixes of two collector instances in one session.
Prefixes == {"", "solar_"}

\* Two collectors side by side on one day, with the page's defaults and edits
\* of the microgrid and the start date.
TwoSidebarsNext ==
    \/ \E key_prefix \in Prefixes : Render(key_prefix, {PageDefaults}, StartPicks)
    \/ \E key_prefix \in Prefixes : collect_sidebar_inputs_raises(key_prefix)

FetchInit ==
    /\ SidebarIdle
    /\ today = 0
    /\ config_dir \in DiskChoices
    /\ microgrid_configs = NotLoaded
    /\ environ \in EnvChoices
    /\ FetchIdle
    /\ TimeIdle
    /\ FactoryIdle
    /\ PageIdle
    /\ PlotIdle
    /\ AppIdle

\* utils/time.py applied to every pair of values.
TimeInit ==
    /\ SidebarIdle
    /\ today = 0
    /\ config_dir \in DiskChoices
    /\ microgrid_configs = NotLoaded
    /\ environ = FullEnv
    /\ FetchIdle
    /\ \E x \in DateLikes \cup {PyInt(20240101)}, y \in DateLikes :
          time_call = [NoTimeCall EXCEPT !.x = x, !.y = y]
    /\ FactoryIdle
    /\ PageIdle
    /\ PlotIdle
    /\ AppIdle

TimeNext ==
    \/ ValidateRangeCall
    \/ ToIso8601Call
    \/ ToIso8601Again

\* The factory in a process whose environment and directory may change.
FactoryInit ==
    /\ SidebarIdle
    /\ today = 0
    /\ config_dir \in DiskChoices
    /\ microgrid_configs = NotLoaded
    /\ environ \in EnvChoices
    /\ FetchIdle
    /\ TimeIdle
    /\ FactoryIdle
    /\ PageIdle
    /\ PlotIdle
    /\ AppIdle

FactoryNext ==
    \/ \E microgrid_id \in AskedIds : GetMicrogridClient(microgrid_id)
    \/ \E microgrid_id \in AskedIds : GetMicrogridConfig("get_component_types", microgrid_id)
    \/ \E microgrid_id \in AskedIds : GetMicrogridConfig("get_microgrid_config", microgrid_id)
    \/ GetMicrogridIds
    \/ DirectoryChanges
    \/ EnvironChanges
    \/ Tick

\* The reporting page in a fresh session on day 1, the day after summer time
\* ended.
PageInit ==
    /\ SidebarIdle
    /\ today = 1
    /\ config_dir \in DiskChoices
    /\ microgrid_configs = NotLoaded
    /\ environ \in EnvChoices
    /\ FetchIdle
    /\ TimeIdle
    /\ FactoryIdle
    /\ PageIdle
    /\ PlotIdle
    /\ AppIdle

PageNext ==
    \/ \E submitted \in BOOLEAN, picked \in PagePicks : RenderCollects(submitted, picked)
    \/ RenderCollectRaises
    \/ RenderFetches
    \/ RenderCompletes
    \/ \E df \in UpstreamResults : UpstreamResponds(df)
    \/ UpstreamFails
    \/ TimeoutFires
    \/ AwaitElapses

\* plot_percentage_bar applied to every mapping and both total keys.
PlotInit ==
    /\ SidebarIdle
    /\ today = 0
    /\ config_dir = [exists |-> FALSE, configs |-> NoConfigs]
    /\ microgrid_configs = NotLoaded
    /\ environ = FullEnv
    /\ FetchIdle
    /\ TimeIdle
    /\ FactoryIdle
    /\ PageIdle
    /\ \E data_points \in Dicts, total_key \in {TotalLabel, OthersLabel} :
          plot_call = PlotCall("called", data_points, total_key, NoPlot)
    /\ AppIdle

PlotNext == PlotPercentageBar

\* The application with any installed page modules, in a new session.
AppInit ==
    /\ SidebarIdle
    /\ today = 0
    /\ config_dir = [exists |-> FALSE, configs |-> NoConfigs]
    /\ microgrid_configs = NotLoaded
    /\ environ = FullEnv
    /\ FetchIdle
    /\ TimeIdle
    /\ FactoryIdle
    /\ PageIdle
    /\ PlotIdle
    /\ app_pages \in [library : BOOLEAN, modules : ModuleLists]
    /\ pages = <<>>
    /\ query_params = NoParams
    /\ selected = NoNavigation

AppNext ==
    \/ \E clicked \in 0..MaxModules : Main(clicked)
    \/ OpenUrl

FetchNext ==
    \/ \E args \in ArgSet, loop_running \in BOOLEAN : get_microgrid_data(args, loop_running)
    \/ \E args \in ArgSet : fetch_microgrid_data(args)
    \/ \E df \in UpstreamResults : UpstreamResponds(df)
    \/ UpstreamFails
    \/ TimeoutFires
    \/ Tick


SidebarSpec == SidebarInit /\ [][SidebarNext]_vars

TwoSidebarsSpec == SidebarInit /\ [][TwoSidebarsNext]_vars

FetchSpec == FetchInit /\ [][FetchNext]_vars

TimeSpec == TimeInit /\ [][TimeNext]_vars

FactorySpec == FactoryInit /\ [][FactoryNext]_vars

PageSpec == PageInit /\ [][PageNext]_vars

PlotSpec == PlotInit /\ [][PlotNext]_vars

AppSpec == AppInit /\ [][AppNext]_vars

\* wait_for's timer fires and the clock keeps running.
FairFetchSpec == FetchSpec /\ WF_vars(Tick) /\ WF_vars(TimeoutFires)

(***************************************************************************)
(* Properties of the sidebar filter collector.                             *)
(***************************************************************************)
\* The Selection stored for a collector instance, when there is one.
HasSelection(key_prefix) == state_key(key_prefix) \in DOMAIN session_state
Selection(key_prefix) == session_state[state_key(key_prefix)]

AllPrefixes == Prefixes \cup {""}

\* C1: a render without submit, with a Selection already stored, returns exactly
\* the stored Selection whatever the widgets hold, and the stored Selection
\* changes only in a render that is submitted or finds none stored.
C1_StoredSelectionUntilSubmit ==
    [][ \A key_prefix \in AllPrefixes :
          /\ ( /\ rendered' # rendered
               /\ rendered'.op = "rendered"
               /\ rendered'.key_prefix = key_prefix
               /\ ~rendered'.submitted
               /\ HasSelection(key_prefix) )
             => ( /\ rendered'.returned = Selection(key_prefix)
                  /\ session_state'[state_key(key_prefix)] = Selection(key_prefix) )
          /\ ( /\ HasSelection(key_prefix)
               /\ session_state'[state_key(key_prefix)] # Selection(key_prefix) )
             => ( /\ rendered'.op = "rendered"
                  /\ rendered'.key_prefix = key_prefix
                  /\ rendered'.submitted )
          /\ ( /\ ~HasSelection(key_prefix)
               /\ state_key(key_prefix) \in DOMAIN session_state' )
             => ( /\ rendered'.op = "rendered"
                  /\ rendered'.key_prefix = key_prefix
                  /\ rendered'.first )
      ]_vars

\* C1 witness: a render without submit whose widgets differ from the Selection
\* it returned.
C1_Witness ==
    /\ rendered.op = "rendered"
    /\ ~rendered.submitted
    /\ ~rendered.first
    /\ rendered.current # rendered.returned
    /\ rendered.returned = Selection(rendered.key_prefix)

\* C2: after a submitted render the stored and the returned Selection are the
\* current values of the five form fields.
C2_SubmitStoresFormValues ==
    (rendered.op = "rendered" /\ rendered.submitted) =>
        LET p == rendered.key_prefix
        IN /\ rendered.returned = rendered.current
           /\ Selection(p) = rendered.returned
           /\ rendered.returned.microgrid_id = session_state[microgrid_key(p)]
           /\ rendered.returned.start_date = session_state[start_key(p)]
           /\ rendered.returned.end_date = session_state[end_key(p)]
           /\ rendered.returned.timezone = session_state[timezone_key(p)]
           /\ rendered.returned.resolution = session_state[resolution_key(p)]

\* C2 witness: a submitted render whose form held the second microgrid, the
\* second timezone and two different dates.
C2_Witness ==
    /\ rendered.op = "rendered"
    /\ rendered.submitted
    /\ rendered.returned.timezone = "UTC"
    /\ rendered.returned.microgrid_id = 2
    /\ rendered.returned.start_date # rendered.returned.end_date

PrefixCandidates ==
    {"", "solar_", "start_", "end_", "applied_", "filters_", "applied_filters", "microgrid_id", "s"}

\* C4: the persisted keys of two instances with different prefixes are disjoint,
\* and a render of one instance leaves the other's stored Selection unchanged.
C4_InstancesDoNotInterfere ==
    /\ \A p \in PrefixCandidates, q \in PrefixCandidates :
          p # q => PersistedKeys(p) \cap PersistedKeys(q) = {}
    /\ [][ \A key_prefix \in Prefixes :
             ( /\ rendered' # rendered
               /\ rendered'.key_prefix # key_prefix )
             => ( /\ HasSelection(key_prefix) <=> state_key(key_prefix) \in DOMAIN session_state'
                  /\ HasSelection(key_prefix)
                       => session_state'[state_key(key_prefix)] = Selection(key_prefix) )
       ]_vars

\* C4 witness: both instances hold a Selection, different ones, the last render
\* being a submit.
C4_Witness ==
    /\ HasSelection("")
    /\ HasSelection("solar_")
    /\ Selection("") # Selection("solar_")
    /\ rendered.op = "rendered"
    /\ rendered.submitted

\* C5 as stated: every stored or returned Selection has start_date <= end_date.
C5_StartNotAfterEnd ==
    /\ \A key_prefix \in AllPrefixes :
          HasSelection(key_prefix)
              => Selection(key_prefix).start_date <= Selection(key_prefix).end_date
    /\ rendered.op = "rendered"
          => rendered.returned.start_date <= rendered.returned.end_date

\* C5 amended: every stored or returned Selection has start_date <= today and
\* end_date <= today; the order of the two dates is whatever the form held.
C5_DatesNotAfterToday ==
    /\ \A key_prefix \in AllPrefixes :
          HasSelection(key_prefix)
              => /\ Selection(key_prefix).start_date <= today
                 /\ Selection(key_prefix).end_date <= today
    /\ rendered.op = "rendered"
          => /\ rendered.returned.start_date <= rendered.today
             /\ rendered.returned.end_date <= rendered.today

\* C5 witness: a stored Selection whose start is after its end.
C5_Witness ==
    /\ HasSelection("")
    /\ Selection("").start_date > Selection("").end_date
    /\ Selection("").start_date <= today

(***************************************************************************)
(* Properties of the data-fetch wrapper.                                   *)
(***************************************************************************)
\* A step in which get_microgrid_data is called.
SyncCallStep ==
    /\ call.pc = "idle"
    /\ last' # last
    /\ last'.fn = "get_microgrid_data"

\* C6 as stated: every get_microgrid_data call made under a running event loop
\* raises the reentrancy RuntimeError and issues no upstream request.
C6_ReentrantCallAlwaysFails ==
    (last.fn = "get_microgrid_data" /\ last.loop_running) =>
        /\ last.kind = "raised"
        /\ last.error = ReentrantAsyncCall
        /\ call.pc = "idle"

\* C7: a get_microgrid_data call whose argument tuple has an entry stored less
\* than TTL seconds ago issues no upstream request and returns the stored table.
C7_CacheHitWithinTtl ==
    [][ ( /\ SyncCallStep
          /\ last'.args \in DOMAIN data_cache
          /\ now < data_cache[last'.args].stored_at + TTL )
        => ( /\ last'.kind = "hit"
             /\ last'.value = data_cache[last'.args].value
             /\ upstream_requests' = upstream_requests
             /\ call'.pc = "idle" )
      ]_vars

\* C7 witness: a hit on the table of the one request issued so far.
C7_Witness ==
    /\ last.kind = "hit"
    /\ upstream_requests = 1
    /\ last.value = data_cache[last.args].value
    /\ Len(last.value.rows) > 0
    /\ now > data_cache[last.args].stored_at

\* C8: an entry expires TTL seconds after it was stored: a hit leaves every
\* entry's stored_at as it was, and a call made outside an event loop more than
\* TTL seconds after its tuple's entry was stored issues a new upstream request.
C8_FixedTtlExpiry ==
    [][ /\ (SyncCallStep /\ last'.kind = "hit") => data_cache' = data_cache
        /\ ( /\ SyncCallStep
             /\ ~last'.loop_running
             /\ last'.args \in DOMAIN data_cache
             /\ now > data_cache[last'.args].stored_at + TTL )
           => ( /\ last'.kind = "pending"
                /\ upstream_requests' = upstream_requests + 1
                /\ call'.pc = "awaiting" )
      ]_vars

\* C8 witness: a request re-issued for a tuple whose entry was stored more than
\* TTL seconds before.
C8_Witness ==
    /\ last.kind = "pending"
    /\ last.fn = "get_microgrid_data"
    /\ last.args \in DOMAIN data_cache
    /\ now > data_cache[last.args].stored_at + TTL
    /\ upstream_requests >= 2

\* C9: a fetch never returns None: an upstream None or empty table comes back as
\* the empty pd.DataFrame(), any other table unchanged; so is every cached table.
C9_NeverNone ==
    /\ last.kind \in {"returned", "hit"} => last.value.kind = "DataFrame"
    /\ last.kind = "returned" =>
          /\ (last.upstream = PyNone \/ Len(last.upstream.rows) = 0 \/ Len(last.upstream.cols) = 0)
                => (last.value.cols = <<>> /\ last.value.rows = <<>>)
          /\ (last.upstream # PyNone /\ Len(last.upstream.rows) > 0 /\ Len(last.upstream.cols) > 0)
                => last.value = last.upstream
    /\ \A args \in DOMAIN data_cache : data_cache[args].value.kind = "DataFrame"

\* C9 witness: upstream returned None and the call returned the empty table.
C9_Witness ==
    /\ last.kind = "returned"
    /\ last.upstream = PyNone
    /\ last.value = pd_DataFrame

\* C10: every awaited fetch completes; it never waits past its deadline, and a
\* fetch that ends by timeout raises TimeoutError, returns no table and stores
\* none.
C10_FetchCompletesOrTimesOut ==
    /\ (call.pc = "awaiting") ~> (call.pc = "idle")
    /\ [](call.pc = "awaiting" => now <= call.deadline)
    /\ [][ (call.pc = "awaiting" /\ call'.pc = "idle" /\ last'.kind # "returned" /\ last'.error # TransportFailure)
           => ( /\ now = call.deadline
                /\ last'.kind = "raised"
                /\ last'.error = Timeout
                /\ last'.value = Nothing
                /\ data_cache' = data_cache )
         ]_vars

\* C10 witness: a fetch that ended by timeout at its deadline.
C10_Witness ==
    /\ last.kind = "raised"
    /\ last.error = Timeout
    /\ call.pc = "idle"
    /\ last.value = Nothing
    /\ now >= last.args.timeout

\* A call of the cached wrapper ends with an exception on this step.
SyncCallRaises ==
    /\ last' # last
    /\ last'.fn = "get_microgrid_data"
    /\ last'.kind = "raised"

\* C23: a get_microgrid_data call that fails stores no cache entry and leaves
\* the entries as they were, so that no live entry serves its arguments and
\* the next call with the same arguments is not answered from the cache.
C23_FailuresAreNotCached ==
    [][ /\ SyncCallRaises =>
             /\ data_cache' = data_cache
             /\ ~( /\ last'.args \in DOMAIN data_cache'
                   /\ now' < data_cache'[last'.args].stored_at + TTL )
        /\ ( /\ last.fn = "get_microgrid_data"
             /\ last.kind = "raised"
             /\ SyncCallStep
             /\ last'.args = last.args
             /\ now' = now )
           => last'.kind # "hit"
      ]_vars

\* C23 witness: a call whose entry had expired timed out beside that entry.
C23_Witness ==
    /\ last.fn = "get_microgrid_data"
    /\ last.kind = "raised"
    /\ last.error = Timeout
    /\ last.args \in DOMAIN data_cache
    /\ ~CacheLive(last.args)

\* The calls of a fetch whose request is issued, in the order of the body.
FetchOrder ==
    << "validate_range", "require_env", "require_env", "require_env",
       "_load_microgrid_configs", "MicrogridData", "get_component_types", "ac_active_power" >>

IsPrefix(s, t) == Len(s) <= Len(t) /\ s = SubSeq(t, 1, Len(s))

\* The body of fetch_microgrid_data runs on this step.
FetchBodyStep ==
    /\ call.pc = "idle"
    /\ now' = now
    /\ last'.steps # <<>>

\* C24: fetch_microgrid_data validates the range, then obtains the client,
\* then resolves the component types, then issues exactly one request; with
\* an invalid range it raises InvalidRange having read no environment
\* variable, loaded no configuration, constructed no client and issued no
\* request.
C24_ValidateThenClientThenRequest ==
    [][ FetchBodyStep =>
          /\ IsPrefix(last'.steps, FetchOrder)
          /\ last'.steps[1] = "validate_range"
          /\ last'.kind = "pending" <=> last'.steps = FetchOrder
          /\ upstream_requests' = upstream_requests + (IF last'.kind = "pending" THEN 1 ELSE 0)
          /\ ~validate_range(last'.args.start_date, last'.args.end_date).ok =>
                /\ last'.kind = "raised"
                /\ last'.error = InvalidRange
                /\ last'.steps = <<"validate_range">>
                /\ microgrid_configs' = microgrid_configs
                /\ clients' = clients
                /\ upstream_requests' = upstream_requests
      ]_vars

\* C24 witness: an empty range was rejected in a process that lacks an
\* environment variable and has not loaded its configuration.
C24_Witness ==
    /\ last.error = InvalidRange
    /\ last.steps = <<"validate_range">>
    /\ ~ClientLoadsConfigs
    /\ ~microgrid_configs.loaded
    /\ upstream_requests = 0

(***************************************************************************)
(* Properties of utils/time.py.                                            *)
(***************************************************************************)
\* The value v denotes minute `minute` of day `day`: a date or an ISO date
\* string its midnight, a datetime, a Timestamp or an ISO datetime string
\* their instant.
Denotes(v, day, minute) ==
    \/ minute = 0 /\ v \in {Date(day), PyStr(date_isoformat(day))}
    \/ v \in {DateTime(day, minute), Timestamp(day, minute), PyStr(isoformat(day, minute))}
    \/ day = 2 /\ minute = 0 /\ v = PyStr(OtherNotation)

\* C11: validate_range of a pair whose instants satisfy end <= start, equal
\* instants included, raises the ValueError of an invalid range and returns no
\* pair.
C11_RejectsEndNotAfterStart ==
    time_call.fn = "validate_range" =>
        \A d1 \in TimeDays, d2 \in TimeDays, m1 \in TimeMinutes, m2 \in TimeMinutes :
            ( /\ Denotes(time_call.x, d1, m1)
              /\ Denotes(time_call.y, d2, m2)
              /\ (d2 < d1 \/ (d2 = d1 /\ m2 <= m1)) )
            => ( /\ ~time_call.range.ok
                 /\ time_call.range.error = InvalidRange )

\* C11 witness: a date and a string of the same day, rejected as equal instants.
C11_Witness ==
    /\ time_call.fn = "validate_range"
    /\ time_call.x = Date(2)
    /\ time_call.y = PyStr("2024-01-02")
    /\ ~time_call.range.ok
    /\ time_call.range.error = InvalidRange

FactoryStep(fn) == factory_call' # factory_call /\ factory_call'.fn = fn

\* C14: with REPORTING_API_URL, API_KEY or API_SECRET unset or blank,
\* get_microgrid_client raises the RuntimeError that names the first of them, in
\* that order, loads no config and constructs no client.
C14_FirstMissingVariableNamed ==
    [][ ( /\ FactoryStep("get_microgrid_client")
          /\ \E var \in {"REPORTING_API_URL", "API_KEY", "API_SECRET"} :
                var \notin DOMAIN environ \/ environ[var] = "" )
        => ( /\ factory_call'.error =
                  "RuntimeError: Missing or empty required environment variable "
                  \o ( IF "REPORTING_API_URL" \notin DOMAIN environ \/ environ["REPORTING_API_URL"] = ""
                       THEN "REPORTING_API_URL"
                       ELSE IF "API_KEY" \notin DOMAIN environ \/ environ["API_KEY"] = ""
                       THEN "API_KEY"
                       ELSE "API_SECRET" )
             /\ microgrid_configs' = microgrid_configs
             /\ clients' = clients
             /\ factory_call'.client = 0 )
      ]_vars

\* C14 witness: with the key and the secret both unset the call named API_KEY,
\* and nothing has been loaded or constructed.
C14_Witness ==
    /\ factory_call.fn = "get_microgrid_client"
    /\ DOMAIN environ = {"REPORTING_API_URL"}
    /\ factory_call.error = "RuntimeError: Missing or empty required environment variable API_KEY"
    /\ ~microgrid_configs.loaded
    /\ config_dir.exists
    /\ clients = <<>>

\* C15: with the three variables set and the config mapping available,
\* get_microgrid_client(microgrid_id) raises the KeyError of an unknown
\* microgrid exactly when str(microgrid_id) is not a key of the cached mapping,
\* and then constructs no client; a missing directory raises its own error.
C15_UnknownMicrogridIffNotConfigured ==
    [][ ( /\ FactoryStep("get_microgrid_client")
          /\ \A var \in {"REPORTING_API_URL", "API_KEY", "API_SECRET"} :
                var \in DOMAIN environ /\ environ[var] # "" )
        => IF microgrid_configs'.loaded
           THEN /\ (factory_call'.error = UnknownMicrogrid)
                       <=> (Str(factory_call'.microgrid_id) \notin DOMAIN microgrid_configs'.configs)
                /\ factory_call'.error = UnknownMicrogrid
                       => (clients' = clients /\ factory_call'.client = 0)
                /\ factory_call'.error # UnknownMicrogrid
                       => (factory_call'.error = NoError /\ factory_call'.client > 0)
           ELSE /\ factory_call'.error = ConfigDirectoryMissing
                /\ clients' = clients
      ]_vars

\* C15 witness: microgrid 9 was refused as unknown to the cached mapping although
\* the directory lists it by now.
C15_Witness ==
    /\ factory_call.fn = "get_microgrid_client"
    /\ factory_call.microgrid_id = 9
    /\ factory_call.error = UnknownMicrogrid
    /\ microgrid_configs.loaded
    /\ "9" \notin DOMAIN microgrid_configs.configs
    /\ "9" \in DOMAIN config_dir.configs

\* C16: every successful get_microgrid_client call constructs one more client
\* and returns it: an instance no earlier call returned.
C16_NewClientPerCall ==
    [][ (FactoryStep("get_microgrid_client") /\ factory_call'.error = NoError)
        => ( /\ Len(clients') = Len(clients) + 1
             /\ factory_call'.client = Len(clients')
             /\ factory_call'.client > Len(clients)
             /\ \A i \in 1..Len(clients) : clients'[i] = clients[i] )
      ]_vars

\* C16 witness: the second successful call returned the second client.
C16_Witness ==
    /\ factory_call.fn = "get_microgrid_client"
    /\ factory_call.error = NoError
    /\ factory_call.client = 2
    /\ Len(clients) = 2

\* C17: once a mapping is cached it stays as it is and the directory is not read
\* again: every later factory call that reads the config reads the cached
\* mapping, whatever the directory holds by then.
C17_ConfigsLoadedOnce ==
    [][ microgrid_configs.loaded
        => ( /\ microgrid_configs' = microgrid_configs
             /\ microgrid_configs'.loads = 1
             /\ \A fn \in {"get_microgrid_client", "get_component_types", "get_microgrid_config", "get_microgrid_ids"} :
                   (FactoryStep(fn) /\ factory_call'.configs # NoConfigs)
                       => factory_call'.configs = microgrid_configs.configs
             /\ (FactoryStep("get_component_types") /\ factory_call'.error = NoError)
                   => factory_call'.value = microgrid_configs.configs[Str(factory_call'.microgrid_id)] )
      ]_vars

\* C17 witness: get_component_types answered from the cached mapping after the
\* directory had changed.
C17_Witness ==
    /\ factory_call.fn = "get_component_types"
    /\ factory_call.error = NoError
    /\ microgrid_configs.loaded
    /\ microgrid_configs.loads = 1
    /\ config_dir.configs # microgrid_configs.configs
    /\ factory_call.configs = microgrid_configs.configs

\* C18 as stated, with the time-to-live of the data cache as the bound: a stored
\* id list is not returned TTL seconds or more after it was stored.
C18_IdsExpireAfterTtl ==
    (factory_call.fn = "get_microgrid_ids" /\ factory_call.cached)
        => now < ids_cache.stored_at + TTL

\* C18 amended: the id list has no time-to-live: once stored, the entry stays as
\* it is and every later get_microgrid_ids call returns the stored list without
\* recomputing it, however much time has passed.
C18_IdsNeverExpire ==
    [][ ids_cache.stored
        => ( /\ ids_cache' = ids_cache
             /\ FactoryStep("get_microgrid_ids")
                   => ( /\ factory_call'.cached
                        /\ factory_call'.error = NoError
                        /\ factory_call'.value = ids_cache.value ) )
      ]_vars

\* C18 witness: the list stored at time 0 returned two time-to-lives of the
\* data cache later.
C18_Witness ==
    /\ factory_call.fn = "get_microgrid_ids"
    /\ factory_call.cached
    /\ ids_cache.stored_at = 0
    /\ now >= 2 * TTL
    /\ factory_call.value = <<1, 2>>

\* C27: every id of the list get_microgrid_ids returned, as the sidebar
\* selector offers it, is accepted by the lookups: str(id) is a key of the
\* config mapping, so that get_microgrid_client, get_component_types and
\* get_microgrid_config do not fail with an unknown microgrid.
C27_ListedIdsAreAccepted ==
    ids_cache.stored =>
        \A i \in DOMAIN ids_cache.value :
            /\ Str(ids_cache.value[i]) \in DOMAIN LoadedConfigs
            /\ get_microgrid_client(ids_cache.value[i]) # UnknownMicrogrid
            /\ LookupError(ids_cache.value[i]) # KeyErrorOfLookup

(***************************************************************************)
(* Properties of the reporting page.                                       *)
(***************************************************************************)
\* Minutes of a day at which coverage is looked at: its first and last minute
\* and the minutes around the end of summer time.
SampleMinutes == {0, 179, 180, 1439}

\* C19: the request of a render pass follows from its Selection: it starts at
\* midnight of start_date in the selected timezone and ends, exclusively, at the
\* midnight one day after that of end_date, so that every instant of the days
\* start_date..end_date lies in [start, end).
C19_RequestCoversDisplayRange ==
    page.request # NoArgs =>
        LET selections == page.selections
            request == page.request
        IN /\ request.microgrid_id = selections.microgrid_id
           /\ request.start_date =
                 [kind |-> "datetime", day |-> selections.start_date, minute |-> 0, tz |-> selections.timezone]
           /\ request.end_date =
                 [kind |-> "datetime", day |-> selections.end_date + 1, minute |-> 0, tz |-> selections.timezone]
           /\ \A day \in selections.start_date..selections.end_date, minute \in SampleMinutes :
                 /\ UtcMinutes(request.start_date) <= UtcMinutes(DateTimeTz(day, minute, selections.timezone))
                 /\ UtcMinutes(DateTimeTz(day, minute, selections.timezone)) < UtcMinutes(request.end_date)

\* C19 witness: the request for days 0 to 1 in Europe/Berlin, 49 hours long.
C19_Witness ==
    /\ page.pc = "fetching"
    /\ page.selections.start_date = 0
    /\ page.selections.end_date = 1
    /\ page.selections.timezone = "Europe/Berlin"
    /\ page.request.end_date.day = 2
    /\ UtcMinutes(page.request.end_date) - UtcMinutes(page.request.start_date) = 49 * 60

\* C20: a render pass reaches the dashboard only when the range check, the
\* resolution parse, the config lookup and the fetch succeeded and the table is
\* not empty; a pass that fails or gets an empty table ends on its warning,
\* error or exception, shows nothing after it and calls get_microgrid_data at
\* most once.
C20_DashboardOnlyAfterSuccess ==
    /\ [] ( page.outcome = "dashboard" =>
              /\ page.selections.start_date <= page.selections.end_date
              /\ parse_resolution(page.selections.resolution) > 0
              /\ Str(page.selections.microgrid_id) \in DOMAIN microgrid_configs.configs
              /\ page.fetches = 1
              /\ last.args = page.request
              /\ last.kind \in {"returned", "hit"}
              /\ Len(last.value.rows) > 0
              /\ Len(last.value.cols) > 0 )
    /\ [] ( \A i \in 1..Len(page.shown) :
              page.shown[i] = "dashboard" => (page.outcome = "dashboard" /\ i = Len(page.shown)) )
    /\ [] ( (page.pc = "done" /\ page.outcome # "dashboard") =>
              /\ page.shown[Len(page.shown)] \in {"warning", "error", "exception"}
              /\ \A i \in 1..(Len(page.shown) - 1) :
                    page.shown[i] \notin {"warning", "error", "exception", "dashboard"} )
    /\ [] ( (page.pc = "done" /\ page.fetches = 1 /\ (last.kind = "raised" \/ Len(last.value.rows) = 0))
              => page.outcome \in {"fetch failed", "raised", "empty"} )
    /\ [] ( page.outcome \in {"range", "resolution"} => (page.fetches = 0 /\ page.request = NoArgs) )
    /\ [] ( page.fetches <= 1 /\ upstream_requests - page.requests_before <= 1 )
    /\ [][ page.pc = "done" => (page' = page \/ page'.passes = page.passes + 1) ]_vars

\* C20 witness: a pass that got the empty table from the cache and stopped on
\* the warning, without an upstream request.
C20_Witness ==
    /\ page.pc = "done"
    /\ page.outcome = "empty"
    /\ last.kind = "hit"
    /\ page.shown = <<"title", "sidebar", "spinner", "warning">>
    /\ upstream_requests = page.requests_before

\* C28: the request the page builds for a Selection with start_date <=
\* end_date, equal dates included, passes validate_range: its end, one day
\* after end_date, is strictly after its start, and the fetch does not raise
\* InvalidRange.
C28_PageRequestPassesValidateRange ==
    page.request # NoArgs =>
        /\ page.selections.start_date <= page.selections.end_date
        /\ validate_range(page.request.start_date, page.request.end_date).ok
        /\ UtcMinutes(page.request.start_date) < UtcMinutes(page.request.end_date)
        /\ last.args = page.request => last.error # InvalidRange

\* C28 witness: the request of a single day was sent upstream.
C28_Witness ==
    /\ page.request # NoArgs
    /\ page.selections.start_date = page.selections.end_date
    /\ last.args = page.request
    /\ last.steps = FetchOrder

(***************************************************************************)
(* Properties of plot_percentage_bar.                                      *)
(***************************************************************************)
\* The call has returned for a mapping that holds the total key.
PlotReturned ==
    plot_call.pc = "returned" /\ plot_call.total_key \in Keys(plot_call.data_points)

\* The sanitized total and components of the call's mapping.
PlotTotal == Get(Clean(plot_call.data_points), plot_call.total_key)
PlotComponents == Components(Clean(plot_call.data_points), plot_call.total_key)
PlotComponentSum == SumValues(PlotComponents)
PlotSegments == plot_call.fig.segments

\* The segment's percentage is n / d * 100.
IsPercentOf(seg, n, d) == seg.pct.den # 0 /\ seg.pct.num * d = n * 100 * seg.pct.den

\* Component i is drawn as a segment of its label and value, at its share of base.
ComponentDrawn(i, base) ==
    \E j \in DOMAIN PlotSegments :
        /\ PlotSegments[j].label = PlotComponents[i].k
        /\ PlotSegments[j].value = PlotComponents[i].v
        /\ IsPercentOf(PlotSegments[j], PlotComponents[i].v, base)

PositiveComponents == {i \in DOMAIN PlotComponents : PlotComponents[i].v > 0}

DescendingByValue ==
    \A i, j \in DOMAIN PlotSegments : i < j => PlotSegments[i].value >= PlotSegments[j].value

\* C21: with total > 0, no negative component and the components' sum at most
\* the total, the bar has one segment per positive component at
\* value/total*100 percent, an "Others" segment at (total - sum)/total*100
\* percent exactly when the total exceeds the sum, and the segments are in
\* descending order of value.
C21_SegmentsOfComponentsAndOthers ==
    ( /\ PlotReturned
      /\ PlotTotal > 0
      /\ \A i \in DOMAIN PlotComponents : PlotComponents[i].v >= 0
      /\ PlotComponentSum <= PlotTotal )
    => /\ plot_call.fig.kind = "bar"
       /\ \A i \in PositiveComponents : ComponentDrawn(i, PlotTotal)
       /\ Len(PlotSegments) =
             Cardinality(PositiveComponents) + (IF PlotTotal > PlotComponentSum THEN 1 ELSE 0)
       /\ PlotTotal > PlotComponentSum =>
             \E j \in DOMAIN PlotSegments :
                /\ PlotSegments[j].label = OthersLabel
                /\ IsPercentOf(PlotSegments[j], PlotTotal - PlotComponentSum, PlotTotal)
       /\ DescendingByValue

\* C22: a total that is <= 0 or None gives the "no data" figure, with no
\* segment and no division, and no mapping that holds the total key makes the
\* call divide by zero.
C22_NoDataWithoutDivision ==
    PlotReturned =>
        /\ plot_call.fig.kind # "ZeroDivisionError"
        /\ PlotTotal <= 0 =>
              /\ plot_call.fig.kind = "no data"
              /\ PlotSegments = <<>>
              /\ plot_call.fig.divisions = 0

\* A total of None beside a positive component gave the placeholder.
C22_Witness ==
    /\ PlotReturned
    /\ Get(plot_call.data_points, plot_call.total_key) = NoFloat
    /\ PositiveComponents # {}
    /\ plot_call.fig.kind = "no data"

\* C25: when the components' sum exceeds a positive total, there is no
\* leftover segment: the segments are exactly the positive components, each
\* at value/used*100 percent.
C25_OvercountedUsesUsedAsBase ==
    (PlotReturned /\ PlotTotal > 0 /\ PlotComponentSum > PlotTotal)
    => /\ plot_call.fig.kind = "bar"
       /\ \A i \in PositiveComponents : ComponentDrawn(i, PlotComponentSum)
       /\ Len(PlotSegments) = Cardinality(PositiveComponents)

\* Two components that together exceed the total were drawn.
C25_Witness ==
    /\ PlotReturned
    /\ PlotTotal > 0
    /\ PlotComponentSum > PlotTotal
    /\ Len(PlotSegments) = 2
    /\ \A j \in DOMAIN PlotSegments : PlotSegments[j].value < PlotComponentSum

\* The sum of the segments' percentages is exactly 100.
PercentagesSumTo100 ==
    /\ PlotSegments # <<>>
    /\ \A j \in DOMAIN PlotSegments : PlotSegments[j].pct.den = PlotSegments[1].pct.den
    /\ SumValues([j \in DOMAIN PlotSegments |-> Item("", PlotSegments[j].pct.num)])
          = 100 * PlotSegments[1].pct.den

\* C26: for every mapping with a total > 0, the percentages of the segments,
\* "Others" included, sum to exactly 100, also with zero, negative or None
\* components.
C26_PercentagesSumTo100 ==
    (PlotReturned /\ PlotTotal > 0) => (plot_call.fig.kind = "bar" /\ PercentagesSumTo100)

(***************************************************************************)
(* Properties of app.py.                                                   *)
(***************************************************************************)
\* C29: the list discover_library_pages returns is ordered by (order,
\* lower-cased title), from the library package and from the local app_pages
\* directory alike.
C29_PagesOrderedByOrderAndTitle ==
    \A i, j \in DOMAIN pages : i < j => ~SortKeyLess(pages[j], pages[i])

\* sidebar(pages) runs on this step, for a URL whose `page` parameter is the
\* key of a page, and the user clicks no other page.
SidebarRunsForUrlPage ==
    /\ selected'.ran
    /\ selected'.error = NoError
    /\ "page" \in DOMAIN query_params
    /\ query_params["page"] \in ValidKeys(pages')
    /\ selected'.clicked # 0 => pages'[selected'.clicked].key = query_params["page"]

\* C30: on such a run session_state["selected_page"] becomes the key of the
\* URL and the page returned is the one of that key.
C30_UrlPageIsSelected ==
    [][ SidebarRunsForUrlPage =>
          /\ session_state'["selected_page"] = query_params["page"]
          /\ selected'.returned.key = query_params["page"]
      ]_vars

====
